---------------------------- MODULE Spec2Model ----------------------------
(***************************************************************************)
(* A model of pyklatt: the Klatt synthesizer (src/src/parwave.py), the     *)
(* universal and language rule stages (src/src/universal_rules.py,         *)
(* src/src/language_rules.py) and the transcription parser                 *)
(* (src/src/transform.py).                                                 *)
(*                                                                         *)
(* Numbers.  Python floats are modelled in fixed point:                    *)
(*   - a signal value or filter coefficient x is the integer x * Unit;     *)
(*   - the noise accumulator n is the integer n * NoiseDen, so that one    *)
(*     draw of random.uniform(-0.00001, 0.00001) is a step in -1..1;       *)
(*   - a duration of d milliseconds is the integer d * DurDen;             *)
(*   - an f0 multiplier m is the integer m * MulDen.                       *)
(* int(x) truncates toward zero (TruncDiv).                                *)
(***************************************************************************)
EXTENDS Integers, Sequences, FiniteSets, TLC

----------------------------------------------------------------------------
(* Bounds of the model *)

\* synthesize/generateSilence calls made in one run of the synthesizer
MaxCalls == 2

----------------------------------------------------------------------------
(* Fixed-point scales *)

Unit == 1000
NoiseDen == 100000
DurDen == 100
MulDen == 1000

\* int(x / y) for y > 0: Python's int() truncates toward zero
TruncDiv(x, y) == IF x >= 0 THEN x \div y ELSE -((-x) \div y)

----------------------------------------------------------------------------
(* parwave.py: module constants *)

FREQUENCY == 10
F0_HZ == 80

\* The 33 fields of a parameter set, in the order synthesize unpacks them.
iFGP == 1
iFGZ == 2
iFGS == 3
iFNP == 4
iFNZ == 5
iF1 == 6
iBGP == 12
iBGZ == 13
iBGS == 14
iBNP == 15
iBNZ == 16
iBW1 == 17
iA2 == 23
iAB == 28
iAH == 29
iAF == 30
iAV == 31
iAVS == 32
iMS == 33

----------------------------------------------------------------------------
(* math.cos(2 pi 0.0001 f), math.e ** (-pi 0.0001 bw) and                  *)
(* math.e ** (-2 pi 0.0001 bw) at the frequencies and bandwidths of the    *)
(* model's frames, in units of 1/Unit.                                     *)

CosTab(f) ==
    CASE f = 0 -> 1000
      [] f = 1250 -> 707
      [] f = 2500 -> 0
      [] f = 5000 -> -1000

ExpTab(bw) ==
    CASE bw = 0 -> 1000
      [] bw = 500 -> 855
      [] bw = 1000 -> 730
      [] bw = 100000 -> 0

ExpTab2(bw) ==
    CASE bw = 0 -> 1000
      [] bw = 500 -> 730
      [] bw = 1000 -> 533
      [] bw = 100000 -> 0

\* b = cos(2 pi f / 10000) * (2 * e ** (-pi bw / 10000))
CoefB(f, bw) == TruncDiv(CosTab(f) * (2 * ExpTab(bw)), Unit)
\* c = -e ** (-2 pi bw / 10000)
CoefC(bw) == -ExpTab2(bw)
\* a = 1 - b - c
CoefA(f, bw) == Unit - CoefB(f, bw) - CoefC(bw)

----------------------------------------------------------------------------
(* _Resonator and _AntiResonator *)

NoResonator == [a |-> 0, b |-> 0, c |-> 0, delay_1 |-> 0, delay_2 |-> 0]

\* _Resonator.init
ResonatorInit(a, b, c) ==
    [a |-> a, b |-> b, c |-> c, delay_1 |-> 0, delay_2 |-> 0]

\* _AntiResonator.init; a = 0 raises ZeroDivisionError (AntiInitRaises)
AntiInitRaises(a) == a = 0

AntiResonatorInit(a, b, c) ==
    LET ra == TruncDiv(Unit * Unit, a)
    IN  ResonatorInit(ra, TruncDiv((-b) * ra, Unit), TruncDiv((-c) * ra, Unit))

\* _Resonator._resonate: the output value
ResonateOut(r, input) ==
    TruncDiv(r.a * input + r.b * r.delay_1 + r.c * r.delay_2, Unit)

\* _Resonator.resonate: the resonator afterwards (the output is stored)
Resonate(r, input) ==
    [r EXCEPT !.delay_2 = r.delay_1, !.delay_1 = ResonateOut(r, input)]

\* _AntiResonator.resonate: the resonator afterwards (the input is stored)
AntiResonate(r, input) ==
    [r EXCEPT !.delay_2 = r.delay_1, !.delay_1 = input]

----------------------------------------------------------------------------
(* State *)

VARIABLES
    \* Synthesizer (parwave.py): the object's fields
    noise,                    \* Synthesizer._noise
    cascade_resonators,       \* formants 1-6, in series
    parallel_resonators,      \* formants 2-6, in parallel
    glottal_antiresonator,
    glottal_pole_resonator,
    glottal_sine_resonator,
    nasal_antiresonator,
    nasal_pole_resonator,
    \* the synthesize call in progress: its locals
    pc,                       \* "idle" | "loop"
    parameters,
    f0_hz,
    turbo,
    samples_target,
    t,
    period_index,
    last_result,
    sounds,
    \* the last call, as its caller sees it
    last_call,                \* its name and arguments
    outcome,                  \* "none" | "returned" | "ZeroDivisionError"
    returned,                 \* the tuple it returned
    noise_before,             \* _noise when it started
    calls                     \* calls made so far

synthVars == <<noise, cascade_resonators, parallel_resonators,
               glottal_antiresonator, glottal_pole_resonator,
               glottal_sine_resonator, nasal_antiresonator,
               nasal_pole_resonator, pc, parameters, f0_hz, turbo,
               samples_target, t, period_index, last_result, sounds,
               last_call, outcome, returned, noise_before, calls>>

resonatorVars == <<cascade_resonators, parallel_resonators,
                   glottal_antiresonator, glottal_pole_resonator,
                   glottal_sine_resonator, nasal_antiresonator,
                   nasal_pole_resonator>>

loopVars == <<parameters, f0_hz, turbo, samples_target, t, period_index,
              last_result, sounds>>

----------------------------------------------------------------------------
(* Inputs of the synthesizer *)

\* A parameter set from its 11 frequencies, 11 bandwidths, 10 amplitudes
\* and its duration.
MakeFrame(freqs, bws, amps, ms) == freqs \o bws \o amps \o <<ms>>

\* speech: the glottal pulse through a glottal pole at 1250 Hz, formant 2 at
\* 1250 Hz and formant 1 at 2500 Hz, with aspiration, frication and bypass
\* driven by the noise accumulator; every other filter passes its input on
FrameSpeech(ms) ==
    MakeFrame(<<1250, 0, 0, 2500, 0, 2500, 1250, 0, 0, 0, 0>>,
              <<1000, 100000, 100000, 100000, 100000, 500, 1000, 100000,
                100000, 100000, 100000>>,
              <<50, 0, 0, 0, 0, 10, 50, 10, 3, 0>>, ms)

\* the same with a glottal zero at 0 Hz of bandwidth 0: its coefficient a is 0
FrameZero(ms) ==
    MakeFrame(<<1250, 0, 0, 2500, 0, 2500, 1250, 0, 0, 0, 0>>,
              <<1000, 0, 100000, 100000, 100000, 500, 1000, 100000,
                100000, 100000, 100000>>,
              <<50, 0, 0, 0, 0, 10, 50, 10, 3, 0>>, ms)

\* durations of 0, 0.15 and 0.3 ms: 0, 1 and 3 samples
SynthDurations == {0, 15, 30}
\* f0 multipliers 0, 0.013 and 0.026: pitch periods of 0, 1 and 2 samples
SynthMultipliers == {0, 13, 26}
\* <<parameters, f0_multiplier, turbo>>: every short frame at every pitch in
\* both modes, a frame of 0.5 ms (5 samples) in turbo mode, and a frame
\* whose resonators cannot be initialised
SynthInputs ==
    ({FrameSpeech(ms) : ms \in SynthDurations} \X SynthMultipliers \X BOOLEAN)
    \cup ({FrameSpeech(50)} \X SynthMultipliers \X {TRUE})
    \cup ({FrameZero(15)} \X SynthMultipliers \X {FALSE})
SilenceDurations == {0, 1 * DurDen, 500 * DurDen}
\* random.uniform(-0.00001, 0.00001): its two extremes
NoiseSteps == {-1, 1}

----------------------------------------------------------------------------
(* Synthesizer.generateSilence *)

\* (0,) * n: n zeros, none for n <= 0
Zeros(n) == [i \in 1..n |-> 0]

SilenceOf(milliseconds) == Zeros(TruncDiv(milliseconds * FREQUENCY, DurDen))

\* a generateSilence that forgets to reset the accumulator
SilenceNoiseKept == noise

\* self._noise = 0.0
SilenceNoise == 0

generateSilence(milliseconds) ==
    /\ pc = "idle"
    /\ calls < MaxCalls
    /\ calls' = calls + 1
    /\ noise_before' = noise
    /\ last_call' = [op |-> "generateSilence", milliseconds |-> milliseconds]
    /\ noise' = SilenceNoise
    /\ returned' = SilenceOf(milliseconds)
    /\ outcome' = "returned"
    /\ UNCHANGED <<resonatorVars, loopVars, pc>>

----------------------------------------------------------------------------
(* Synthesizer._initResonators *)

\* frequencies = parameters[0:11], bandwidths = parameters[11:22]
Freq(p, k) == p[k]
Band(p, k) == p[iBGP - 1 + k]
InitFor(p, k) ==
    ResonatorInit(CoefA(Freq(p, k), Band(p, k)), CoefB(Freq(p, k), Band(p, k)),
                  CoefC(Band(p, k)))
AntiInitFor(p, k) ==
    AntiResonatorInit(CoefA(Freq(p, k), Band(p, k)),
                      CoefB(Freq(p, k), Band(p, k)), CoefC(Band(p, k)))

\* 1.0 / a in _AntiResonator.init divides by zero
GlottalZeroRaises(p) == AntiInitRaises(CoefA(Freq(p, iFGZ), Band(p, iFGZ)))
NasalZeroRaises(p) == AntiInitRaises(CoefA(Freq(p, iFNZ), Band(p, iFNZ)))
InitResonatorsRaises(p) == GlottalZeroRaises(p) \/ NasalZeroRaises(p)

\* cascade resonator n and parallel resonator n - 1 both take formant n
InitCascade(p) == [n \in 1..6 |-> InitFor(p, iF1 - 1 + n)]
InitParallel(p) == [n \in 1..5 |-> InitFor(p, iF1 + n)]

\* a resonator given new coefficients with its echo queue left alone
Requeued(old, new) ==
    [new EXCEPT !.delay_1 = old.delay_1, !.delay_2 = old.delay_2]

\* an _initResonators whose init calls forget to reset the echo queues
initResonatorsRequeued(p) ==
    /\ cascade_resonators' =
           [n \in 1..6 |-> Requeued(cascade_resonators[n], InitCascade(p)[n])]
    /\ parallel_resonators' =
           [n \in 1..5 |-> Requeued(parallel_resonators[n], InitParallel(p)[n])]
    /\ glottal_pole_resonator' = Requeued(glottal_pole_resonator, InitFor(p, iFGP))
    /\ glottal_sine_resonator' = Requeued(glottal_sine_resonator, InitFor(p, iFGS))
    /\ nasal_pole_resonator' = Requeued(nasal_pole_resonator, InitFor(p, iFNP))
    /\ glottal_antiresonator' =
           IF GlottalZeroRaises(p) THEN glottal_antiresonator
           ELSE Requeued(glottal_antiresonator, AntiInitFor(p, iFGZ))
    /\ nasal_antiresonator' =
           IF InitResonatorsRaises(p) THEN nasal_antiresonator
           ELSE Requeued(nasal_antiresonator, AntiInitFor(p, iFNZ))

\* The resonators are initialised in the order of lines 191-199; an
\* anti-resonator that raises leaves itself and the later ones as they were.
initResonators(p) ==
    /\ cascade_resonators' = InitCascade(p)
    /\ parallel_resonators' = InitParallel(p)
    /\ glottal_pole_resonator' = InitFor(p, iFGP)
    /\ glottal_sine_resonator' = InitFor(p, iFGS)
    /\ nasal_pole_resonator' = InitFor(p, iFNP)
    /\ glottal_antiresonator' =
           IF GlottalZeroRaises(p) THEN glottal_antiresonator
           ELSE AntiInitFor(p, iFGZ)
    /\ nasal_antiresonator' =
           IF InitResonatorsRaises(p) THEN nasal_antiresonator
           ELSE AntiInitFor(p, iFNZ)

----------------------------------------------------------------------------
(* Synthesizer.synthesize *)

\* f0_hz = int(_F0_HZ * f0_multiplier)
PeriodOf(f0_multiplier) == TruncDiv(F0_HZ * f0_multiplier, MulDen)
\* samples_target = int(milliseconds * FREQUENCY)
TargetOf(milliseconds) == TruncDiv(milliseconds * FREQUENCY, DurDen)

\* a noise-scaled product as a signal value
NoiseSig(x) == TruncDiv(x * Unit, NoiseDen)

\* a conversion that forgets to clip
ClipNone(output) == TruncDiv(output * 32767, Unit)

\* output = int(output * 32767.0), clipped to the signed 16-bit range
Clip(output) ==
    LET v == TruncDiv(output * 32767, Unit)
    IN  IF v > 32767 THEN 32767 ELSE IF v < -32768 THEN -32768 ELSE v

\* sounds *= 2
Tile(s) == s \o s

\* while len(sounds) * 2 < samples_target: sounds *= 2
RECURSIVE Doubled(_, _)
Doubled(s, target) ==
    IF Len(s) * 2 < target THEN Doubled(Tile(s), target) ELSE s

\* s[:n] of Python, n of either sign
Prefix(s, n) ==
    LET m == IF n >= 0 THEN (IF n < Len(s) THEN n ELSE Len(s))
             ELSE (IF Len(s) + n > 0 THEN Len(s) + n ELSE 0)
    IN  SubSeq(s, 1, m)

\* a turbo branch that appends the whole buffer: sounds += sounds
TurboFillWhole(s, target) == Doubled(s, target) \o Doubled(s, target)

\* the turbo branch: tile, then sounds += sounds[:samples_target - len(sounds)]
TurboFill(s, target) ==
    LET d == Doubled(s, target)
    IN  d \o Prefix(d, target - Len(d))

\* a turbo test that is one pass late: t == f0_hz * 2
TurboBreakLate(tf, tt, hz) == tt >= hz /\ tf /\ tt = hz * 2

\* a turbo test that waits for two kept periods: t == f0_hz * 3 - 1
TurboBreakTwoPeriods(tf, tt, hz) == tt >= hz /\ tf /\ tt = hz * 3 - 1

\* if turbo and t == f0_hz * 2 - 1, inside "if t >= f0_hz"
TurboBreak(tf, tt, hz) == tt >= hz /\ tf /\ tt = hz * 2 - 1

\* if t >= f0_hz: the sample is kept
Kept(tt, hz) == tt >= hz

\* if period_index == f0_hz: pulse = 1.0
PulseAt(pi, hz) == IF pi = hz THEN Unit ELSE 0
NextPeriodIndex(pi, hz) == IF pi = hz THEN 0 ELSE pi + 1

\* Formants 6 down to 2: the source runs through the cascade resonators in
\* series, the frication through each parallel resonator into the result.
RECURSIVE FormantChain(_, _, _, _, _, _, _)
FormantChain(n, source, result, casc, par, frication, p) ==
    IF n < 2 THEN [source |-> source, result |-> result, casc |-> casc, par |-> par]
    ELSE LET c == Resonate(casc[n], source)
             q == Resonate(par[n - 1], NoiseSig(frication * p[iA2 - 2 + n]))
         IN  FormantChain(n - 1, c.delay_1, result + q.delay_1,
                          [casc EXCEPT ![n] = c], [par EXCEPT ![n - 1] = q],
                          frication, p)

\* a _getNoise that forgets the last-generated value
getNoiseFresh(last, step) == step

\* self._noise = random.uniform(-0.00001, 0.00001) + self._noise
getNoise(last, step) == step + last

\* the locals of synthesize when no call is in progress
NoLocals ==
    /\ parameters' = <<>>
    /\ f0_hz' = 0
    /\ turbo' = FALSE
    /\ samples_target' = 0
    /\ t' = 0
    /\ period_index' = 0
    /\ last_result' = 0
    /\ sounds' = <<>>

\* lines 101-124: unpack, _initResonators, loop variables; the return of
\* line 168 when the loop has no pass to make
synthesizeBegin(params, f0_multiplier, turbo_flag) ==
    /\ pc = "idle"
    /\ calls < MaxCalls
    /\ calls' = calls + 1
    /\ noise_before' = noise
    /\ last_call' = [op |-> "synthesize", parameters |-> params,
                     f0_multiplier |-> f0_multiplier, turbo |-> turbo_flag]
    /\ returned' = <<>>
    /\ initResonators(params)
    /\ UNCHANGED noise
    /\ IF InitResonatorsRaises(params)
       THEN /\ outcome' = "ZeroDivisionError"
            /\ pc' = "idle"
            /\ NoLocals
       ELSE IF TargetOf(params[iMS]) + PeriodOf(f0_multiplier) > 0
       THEN /\ outcome' = "none"
            /\ pc' = "loop"
            /\ parameters' = params
            /\ turbo' = turbo_flag
            /\ f0_hz' = PeriodOf(f0_multiplier)
            /\ sounds' = <<>>
            /\ last_result' = 0
            /\ period_index' = PeriodOf(f0_multiplier)
            /\ samples_target' = TargetOf(params[iMS])
            /\ t' = 0
       ELSE /\ outcome' = "returned"
            /\ pc' = "idle"
            /\ NoLocals

\* lines 125-168: one pass of the loop body, and the return when it is the last
synthesizeTick(step) ==
    /\ pc = "loop"
    /\ t < samples_target + f0_hz
    /\ LET p == parameters
           n == getNoise(noise, step)
           pulse == PulseAt(period_index, f0_hz)
           gp == Resonate(glottal_pole_resonator, pulse)
           s0 == gp.delay_1
           gzOut == ResonateOut(glottal_antiresonator, s0)
           gs == Resonate(glottal_sine_resonator, s0)
           s1 == gzOut * p[iAV] + gs.delay_1 * p[iAVS] + NoiseSig(n * p[iAH])
           np == Resonate(nasal_pole_resonator, s1)
           s2 == ResonateOut(nasal_antiresonator, np.delay_1)
           frication == n * p[iAF]
           ch == FormantChain(6, s2, NoiseSig(frication * p[iAB]),
                              cascade_resonators, parallel_resonators,
                              frication, p)
           c1 == Resonate(ch.casc[1], ch.source)
           result == ch.result + c1.delay_1
           output == result - last_result
           appended == IF Kept(t, f0_hz) THEN Append(sounds, Clip(output))
                       ELSE sounds
           break == TurboBreak(turbo, t, f0_hz)
           final == IF break THEN TurboFill(appended, samples_target)
                    ELSE appended
           last == break \/ t + 1 >= samples_target + f0_hz
       IN  /\ noise' = n
           /\ glottal_pole_resonator' = gp
           /\ glottal_antiresonator' = AntiResonate(glottal_antiresonator, s0)
           /\ glottal_sine_resonator' = gs
           /\ nasal_pole_resonator' = np
           /\ nasal_antiresonator' = AntiResonate(nasal_antiresonator, np.delay_1)
           /\ cascade_resonators' = [ch.casc EXCEPT ![1] = c1]
           /\ parallel_resonators' = ch.par
           /\ IF last
              THEN /\ pc' = "idle"
                   /\ outcome' = "returned"
                   /\ returned' = final
                   /\ NoLocals
              ELSE /\ pc' = "loop"
                   /\ period_index' = NextPeriodIndex(period_index, f0_hz)
                   /\ last_result' = result
                   /\ sounds' = final
                   /\ t' = t + 1
                   /\ UNCHANGED <<outcome, returned, parameters, f0_hz, turbo,
                                  samples_target>>
    /\ UNCHANGED <<last_call, noise_before, calls>>

----------------------------------------------------------------------------
(* ipa.py: the phoneme table and the phoneme classes.  The module is not    *)
(* part of the sources at hand; the inventory below follows the interface  *)
(* the specification gives it: a 33-field parameter set per symbol and the *)
(* classes of vowels, nasals and stops.  "A" is a nasal vowel, "Q" the     *)
(* glottal stop.                                                           *)

IPA_SYMBOLS == {"a", "A", "n", "t", "s", "h", "Q"}
VOWELS == {"a", "A"}
NASALS == {"A", "n"}
STOPS == {"t", "Q"}

\* n milliseconds as a duration
Ms(n) == n * DurDen

SymbolBase(c) ==
    CASE c = "a" -> 700
      [] c = "A" -> 640
      [] c = "n" -> 250
      [] c = "t" -> 40
      [] c = "s" -> 95
      [] c = "h" -> 10
      [] c = "Q" -> 0

SymbolDuration(c) ==
    CASE c = "a" -> Ms(100)
      [] c = "A" -> Ms(120)
      [] c = "n" -> Ms(60)
      [] c = "t" -> Ms(30)
      [] c = "s" -> Ms(75)
      [] c = "h" -> Ms(40)
      [] c = "Q" -> Ms(20)

\* IPA_PARAMETERS[c]: 32 acoustic fields and the duration
IPA_PARAMETERS(c) ==
    [i \in 1..32 |-> SymbolBase(c) + 7 * i] \o <<SymbolDuration(c)>>

----------------------------------------------------------------------------
(* universal_rules.py *)

\* parameters[:32] and parameters[32]
Values(frame) == SubSeq(frame, 1, 32)
Duration(frame) == frame[33]

\* int(duration * num / den), in whole milliseconds
IntMs(duration, num, den) == Ms(TruncDiv(duration * num, den * DurDen))

\* [(x * wx + y * wy) / (wx + wy) for (x, y) in zip(xs, ys)]: Python 2's
\* integer division of integer fields
Blend(xs, wx, ys, wy) ==
    [i \in 1..32 |-> (xs[i] * wx + ys[i] * wy) \div (wx + wy)]

\* list.insert(k, x) with k counted from 0, 0 <= k <= len
Insert(list, k, x) == SubSeq(list, 1, k) \o <<x>> \o SubSeq(list, k + 1, Len(list))

\* list[-1]
Last(list) == list[Len(list)]

\* int(vowel_duration * 0.5), int(vowel_duration * 0.167),
\* int(vowel_duration * 0.333)
NasalHalf(d) == IntMs(d, 500, 1000)
NasalLeadIn(d) == IntMs(d, 167, 1000)
NasalLeadOut(d) == IntMs(d, 333, 1000)

Nasalizes(ipa_character, following_phonemes) ==
    /\ following_phonemes # <<>>
    /\ following_phonemes[1] \in NASALS
    /\ ipa_character \in VOWELS
    /\ ipa_character \notin NASALS

nasalizeVowel(ipa_character, following_phonemes, list) ==
    IF ~Nasalizes(ipa_character, following_phonemes) THEN list
    ELSE LET vowel == list[1]
             d == Duration(vowel)
             v == Values(vowel)
             n == Values(IPA_PARAMETERS(following_phonemes[1]))
             l0 == [list EXCEPT ![1] = v \o <<NasalHalf(d)>>]
             l1 == Insert(l0, 1, Blend(v, 2, n, 1) \o <<NasalLeadIn(d)>>)
         IN  Insert(l1, 2, Blend(v, 1, n, 2) \o <<NasalLeadOut(d)>>)

\* where the frame of a liaison after a vowel goes: list.append
BridgeVowelPlace(list) == Len(list)

\* previous_words[-1][-1]
LastCharacter(previous_words) == Last(Last(previous_words))

\* the test without its look at the phoneme's class
BridgesAnyPhoneme(ipa_character, preceding_phonemes, previous_words) ==
    /\ preceding_phonemes = <<>>
    /\ previous_words # <<>>

Bridges(ipa_character, preceding_phonemes, previous_words) ==
    /\ ipa_character \in VOWELS
    /\ preceding_phonemes = <<>>
    /\ previous_words # <<>>

bridgeWords(ipa_character, preceding_phonemes, following_phonemes, previous_words, list) ==
    IF ~Bridges(ipa_character, preceding_phonemes, previous_words) THEN list
    ELSE LET character == LastCharacter(previous_words)
         IN  IF character \in VOWELS
             THEN Insert(list, BridgeVowelPlace(list),
                         Values(IPA_PARAMETERS("h")) \o <<Ms(50)>>)
             ELSE Insert(list, 0,
                         Blend(Values(list[1]), 1,
                               Values(IPA_PARAMETERS(character)), 1)
                         \o <<Ms(50)>>)

\* max(5, duration - 15)
Trimmed(d) == IF d - Ms(15) > Ms(5) THEN d - Ms(15) ELSE Ms(5)

\* the test without its exception for a vowel before a nasal
ShapesTailAlways(ipa_character, following_phonemes) == following_phonemes # <<>>

ShapesTail(ipa_character, following_phonemes) ==
    /\ following_phonemes # <<>>
    /\ ~(ipa_character \in VOWELS /\ following_phonemes[1] \in NASALS)

\* the first half of shapeContours: the lead-in
ShapeLead(ipa_character, preceding_phonemes, list) ==
    IF preceding_phonemes = <<>> THEN list
    ELSE LET lead == list[1]
             l0 == [list EXCEPT ![1] = Values(lead) \o <<Trimmed(Duration(lead))>>]
         IN  IF ipa_character \notin STOPS
             THEN Insert(l0, 0,
                         Blend(Values(lead), 2,
                               Values(IPA_PARAMETERS(Last(preceding_phonemes))), 1)
                         \o <<Ms(15)>>)
             ELSE Insert(l0, 0, Values(IPA_PARAMETERS("Q")) \o <<Ms(15)>>)

\* the second half of shapeContours: the lead-out
ShapeTail(ipa_character, following_phonemes, list) ==
    IF ~ShapesTail(ipa_character, following_phonemes) THEN list
    ELSE LET tail == Last(list)
             l0 == [list EXCEPT ![Len(list)] =
                        Values(tail) \o <<Trimmed(Duration(tail))>>]
         IN  IF following_phonemes[1] \notin STOPS
             THEN Append(l0, Blend(Values(tail), 2,
                                   Values(IPA_PARAMETERS(following_phonemes[1])), 1)
                             \o <<Ms(15)>>)
             ELSE Append(l0, Values(IPA_PARAMETERS("h")) \o <<Ms(15)>>)

shapeContours(ipa_character, preceding_phonemes, following_phonemes, list) ==
    ShapeTail(ipa_character, following_phonemes,
              ShapeLead(ipa_character, preceding_phonemes, list))

----------------------------------------------------------------------------
(* languages/null.py, language_rules.py *)

\* A rule function is a function of its arguments; it answers with the
\* parameter-sets to put before and after the current one, an f0 multiplier
\* and the current parameter-set as it has left it.
RULE_FUNCTIONS(language_name) ==
    CASE language_name = "null" -> <<>>

Languages == {"null"}

\* What a rule function may be handed (english_canadian.py, Usage).
RuleArguments ==
    [context : [ipa_character : STRING,
                preceding_phonemes : Seq(STRING),
                following_phonemes : Seq(STRING),
                previous_words : Seq(Seq(STRING))],
     transformed_parameters : Seq(Seq(Int)),
     remaining_phoneme_parameter_count : Int,
     preceding_parameters : Seq(Seq(Int)),
     following_parameters : Seq(Seq(Int)),
     parameters : Seq(Int)]

\* parameters[27] += boost, in place
Boosted(frame, boost) == [frame EXCEPT ![iAB] = @ + boost]

\* A rule function written to that interface: it boosts the bypass gain of
\* the parameter-set it is handed, in place, and answers with one
\* parameter-set of the handed fields for every duration in `before` and in
\* `after`, and with its f0 multiplier: `last` for the last parameter-set
\* of the phoneme, `multiplier` for the others.
Rule(behaviour) ==
    [args \in RuleArguments |->
        LET changed == Boosted(args.parameters, behaviour.boost)
        IN  [parameters |-> changed,
             multiplier |->
                 IF args.remaining_phoneme_parameter_count = 0
                 THEN behaviour.last ELSE behaviour.multiplier,
             preceding_params |->
                 [k \in 1..Len(behaviour.before) |->
                     Values(changed) \o <<behaviour.before[k]>>],
             following_params |->
                 [k \in 1..Len(behaviour.after) |->
                     Values(changed) \o <<behaviour.after[k]>>]]]

\* a ruleset of such rule functions, in order
Ruleset(behaviours) == [j \in 1..Len(behaviours) |-> Rule(behaviours[j])]

\* preceding_parameters + preceding_params, put the other way round
PrecedingBefore(preceding_parameters, preceding_params) == preceding_params \o preceding_parameters

\* preceding_parameters = preceding_parameters + preceding_params
Preceding(preceding_parameters, preceding_params) == preceding_parameters \o preceding_params

\* following_parameters = following_params + following_parameters
FollowingAfter(following_params, following_parameters) == following_params \o following_parameters

\* f0_multiplier = multiplier: what the earlier rule functions gave is lost
Replaced(f0_multiplier, multiplier) == multiplier

\* f0_multiplier *= multiplier
Scaled(f0_multiplier, multiplier) == TruncDiv(f0_multiplier * multiplier, MulDen)

\* the for loop over rule_functions, for one parameter-set
RECURSIVE ApplyFunctions(_, _, _, _, _)
ApplyFunctions(rule_functions, context, transformed_parameters, remaining, acc) ==
    IF rule_functions = <<>> THEN acc
    ELSE LET result == Head(rule_functions)[
                 [context |-> context,
                  transformed_parameters |-> transformed_parameters,
                  remaining_phoneme_parameter_count |-> remaining,
                  preceding_parameters |-> acc.preceding_parameters,
                  following_parameters |-> acc.following_parameters,
                  parameters |-> acc.parameters]]
         IN  ApplyFunctions(Tail(rule_functions), context,
                 transformed_parameters, remaining,
                 [parameters |-> result.parameters,
                  f0_multiplier |-> Scaled(acc.f0_multiplier, result.multiplier),
                  preceding_parameters |->
                      Preceding(acc.preceding_parameters, result.preceding_params),
                  following_parameters |->
                      FollowingAfter(result.following_params,
                                     acc.following_parameters)])

\* transformed_parameters += ... put the other way round
TransformedBefore(transformed_parameters, added) == added \o transformed_parameters

\* transformed_parameters += preceding_parameters + [parameters] + following_parameters
Transformed(transformed_parameters, added) == transformed_parameters \o added

\* the for loop over parameters_list, from its i-th element on
RECURSIVE ApplyParameters(_, _, _, _, _, _)
ApplyParameters(rule_functions, context, list, i, transformed_parameters, multipliers) ==
    IF i > Len(list) THEN <<transformed_parameters, multipliers>>
    ELSE LET acc == ApplyFunctions(rule_functions, context,
                        transformed_parameters, Len(list) - i,
                        [parameters |-> list[i],
                         f0_multiplier |-> MulDen,
                         preceding_parameters |-> <<>>,
                         following_parameters |-> <<>>])
             added == acc.preceding_parameters \o <<acc.parameters>>
                      \o acc.following_parameters
         IN  ApplyParameters(rule_functions, context, list, i + 1,
                 Transformed(transformed_parameters, added),
                 multipliers \o [k \in 1..Len(added) |-> acc.f0_multiplier])

applyRules(rule_functions, context, list) ==
    ApplyParameters(rule_functions, context, list, 1, <<>>, <<>>)

----------------------------------------------------------------------------
(* transform.py: _wordToSound and _phonemeToSound, up to the frames and    *)
(* multipliers handed to the synthesizer                                   *)

VARIABLES
    language,            \* the ruleset language_rules imports
    word,                \* the phonemes of the word being synthesized
    previous_words,      \* the words of the sentence before it
    position,            \* how many phonemes of the word have been taken
    duration_multiplier, \* of the current phoneme, in MulDen-ths
    stage,               \* where _phonemeToSound stands
    stage_in,            \* the list handed to the stage just passed
    parameters_list,
    f0_multipliers

ruleVars == <<language, word, previous_words, position, duration_multiplier,
              stage, stage_in, parameters_list, f0_multipliers>>

\* the symbols words are made of
PhonemeChoices == {"a", "A", "n", "t", "s"}

MaxWordLen == 3

Words == UNION {[1..n -> PhonemeChoices] : n \in 1..MaxWordLen}

PreviousWordsChoices ==
    {<<>>,
     <<<<"s", "a">>>>,
     <<<<"a", "n">>>>,
     <<<<"t">>, <<"n", "A">>>>,
     <<<<"a">>, <<"a", "t">>>>}

\* no extension, one '<', one '>'
DurationMultipliers == {500, 1000, 1500}

ipa_character == word[position]
preceding_phonemes == SubSeq(word, 1, position - 1)
following_phonemes == SubSeq(word, position + 1, Len(word))

\* parameters[-1] = int(parameters[-1] * duration_multiplier)
BaseParameters(c, multiplier) ==
    LET entry == IPA_PARAMETERS(c)
    IN  Values(entry) \o <<IntMs(Duration(entry), multiplier, MulDen)>>

\* the context a rule function is given
Context ==
    [ipa_character |-> ipa_character,
     preceding_phonemes |-> preceding_phonemes,
     following_phonemes |-> following_phonemes,
     previous_words |-> previous_words]

\* _wordToSound starts on a word of the sentence
wordToSound(token, previous) ==
    /\ stage = "idle"
    /\ word' = token
    /\ previous_words' = previous
    /\ position' = 0
    /\ duration_multiplier' = MulDen
    /\ stage' = "word"
    /\ stage_in' = <<>>
    /\ parameters_list' = <<>>
    /\ f0_multipliers' = <<>>
    /\ UNCHANGED language

\* _wordToSound returns behind the last phoneme of the word
wordToSoundReturn ==
    /\ stage = "ruled"
    /\ position = Len(word)
    /\ word' = <<>>
    /\ previous_words' = <<>>
    /\ position' = 0
    /\ duration_multiplier' = MulDen
    /\ stage' = "idle"
    /\ stage_in' = <<>>
    /\ parameters_list' = <<>>
    /\ f0_multipliers' = <<>>
    /\ UNCHANGED language

\* _phonemeToSound is entered for the next phoneme of the word
phonemeToSound(multiplier) ==
    /\ stage \in {"word", "ruled"}
    /\ position < Len(word)
    /\ position' = position + 1
    /\ duration_multiplier' = multiplier
    /\ stage' = "base"
    /\ stage_in' = <<>>
    /\ parameters_list' = <<BaseParameters(word[position + 1], multiplier)>>
    /\ f0_multipliers' = <<>>
    /\ UNCHANGED <<language, word, previous_words>>

applyNasalization ==
    /\ stage = "base"
    /\ stage' = "nasalized"
    /\ stage_in' = parameters_list
    /\ parameters_list' =
           nasalizeVowel(ipa_character, following_phonemes, parameters_list)
    /\ UNCHANGED <<language, word, previous_words, position,
                   duration_multiplier, f0_multipliers>>

applyLiaisons ==
    /\ stage = "nasalized"
    /\ stage' = "bridged"
    /\ stage_in' = parameters_list
    /\ parameters_list' =
           bridgeWords(ipa_character, preceding_phonemes, following_phonemes,
                       previous_words, parameters_list)
    /\ UNCHANGED <<language, word, previous_words, position,
                   duration_multiplier, f0_multipliers>>

applyContours ==
    /\ stage = "bridged"
    /\ stage' = "shaped"
    /\ stage_in' = parameters_list
    /\ parameters_list' =
           shapeContours(ipa_character, preceding_phonemes, following_phonemes,
                         parameters_list)
    /\ UNCHANGED <<language, word, previous_words, position,
                   duration_multiplier, f0_multipliers>>

applyLanguageRules ==
    /\ stage = "shaped"
    /\ stage' = "ruled"
    /\ stage_in' = parameters_list
    /\ LET result == applyRules(RULE_FUNCTIONS(language), Context, parameters_list)
       IN  /\ parameters_list' = result[1]
           /\ f0_multipliers' = result[2]
    /\ UNCHANGED <<language, word, previous_words, position,
                   duration_multiplier>>

----------------------------------------------------------------------------
(* transform.py: the token grammar, _extractSentence and the sentence loop *)
(* of paragraphToSound.  A token is a sequence of characters.              *)

\* the single-character keys of the phoneme table, as _WORD_REGEXP lists them
IPA_CHARACTERS == IPA_SYMBOLS
Extensions == {"-", "+", "<", ">"}

SENTENCE_QUESTION == 1
SENTENCE_EXCLAMATION == 2
WORD_QUOTED == 1
WORD_EMPHASIZED == 2
WORD_CONTENT == 3

\* c in s
Has(s, c) == \E k \in 1..Len(s) : s[k] = c

\* s[k], or nothing behind the end of s
At(s, k) == IF k <= Len(s) THEN s[k] ELSE "end"

\* (?:[*]|"|[*]"|"[*])? read from s[k]: how many characters it takes
MarkerLen(s, k) ==
    IF (At(s, k) = "*" /\ At(s, k + 1) = "\"")
       \/ (At(s, k) = "\"" /\ At(s, k + 1) = "*")
    THEN 2
    ELSE IF At(s, k) \in {"*", "\""} THEN 1 ELSE 0

\* (?:[.]|[?]|!|[?]!|![?])? read from s[k]
PunctuationLen(s, k) ==
    IF (At(s, k) = "?" /\ At(s, k + 1) = "!")
       \/ (At(s, k) = "!" /\ At(s, k + 1) = "?")
    THEN 2
    ELSE IF At(s, k) \in {".", "?", "!"} THEN 1 ELSE 0

\* [-+<>IPA]* read from s[k]: the place behind it
RECURSIVE ClusterEnd(_, _)
ClusterEnd(s, k) ==
    IF At(s, k) \in IPA_CHARACTERS \cup Extensions
    THEN ClusterEnd(s, k + 1)
    ELSE k

NoMatch == [matched |-> FALSE]

\* _WORD_REGEXP.match(token): the three groups, or no match
Match(token) ==
    LET open == 1 + MarkerLen(token, 1)
        core == IF At(token, open) = "'" THEN open + 1 ELSE open
        run == ClusterEnd(token, core + 1)
        close == IF At(token, run) = "," THEN run + 1 ELSE run
        punctuation == close + MarkerLen(token, close)
        end == punctuation + PunctuationLen(token, punctuation)
    IN  IF At(token, core) \in IPA_CHARACTERS /\ end = Len(token) + 1
        THEN [matched |-> TRUE,
              group1 |-> SubSeq(token, 1, core - 1),
              group2 |-> SubSeq(token, core, close - 1),
              group3 |-> SubSeq(token, close, Len(token))]
        ELSE NoMatch

\* the word index of the error, counted from 0
ErrorWordFromZero(words) == Len(words)

\* len(words) + 1
ErrorWord(words) == Len(words) + 1

\* the sentence-level flags of a '?' that forgets the '!' behind it
SentenceFlagsFirstOnly(group3) ==
    IF Has(group3, ".") THEN <<>>
    ELSE IF Has(group3, "?") THEN <<SENTENCE_QUESTION>>
    ELSE IF Has(group3, "!") THEN <<SENTENCE_EXCLAMATION>>
    ELSE <<>>

\* the flags appended to markup where the sentence ends
SentenceFlags(group3) ==
    IF Has(group3, ".") THEN <<>>
    ELSE IF Has(group3, "?")
    THEN <<SENTENCE_QUESTION>>
         \o (IF Has(group3, "!") THEN <<SENTENCE_EXCLAMATION>> ELSE <<>>)
    ELSE IF Has(group3, "!")
    THEN (IF Has(group3, "?") THEN <<SENTENCE_QUESTION>> ELSE <<>>)
         \o <<SENTENCE_EXCLAMATION>>
    ELSE <<>>

\* a test that ends the loop at any token with a closing part
BreaksOnClosing(group3) == group3 # <<>>

\* the three tests that end the loop with break
Breaks(group3) == Has(group3, ".") \/ Has(group3, "?") \/ Has(group3, "!")

\* a flag that lives for one token only
CarriedNever(flag, group3, marker) == FALSE

\* quotation and emphasis after the word: unset by a marker in group 3
Carried(flag, group3, marker) == flag /\ ~Has(group3, marker)

\* a pop that takes the token behind the first along
PoppedTwo(queue) == IF Len(queue) > 1 THEN Tail(Tail(queue)) ELSE <<>>

\* tokens.pop(0): what stays in the queue
Popped(queue) == Tail(queue)

\* the while loop of _extractSentence
RECURSIVE ExtractLoop(_, _, _, _, _, _)
ExtractLoop(queue, words, markup, quotation, emphasis, sentence_number) ==
    IF queue = <<>>
    THEN [raised |-> FALSE, words |-> words, markup |-> markup, tokens |-> queue]
    ELSE
      LET token == Head(queue)
          rest == Popped(queue)
          match == Match(token)
      IN  IF ~match.matched
          THEN [raised |-> TRUE, word |-> ErrorWord(words),
                sentence |-> sentence_number]
          ELSE
            LET quoted == quotation \/ Has(match.group1, "\"")
                emphasized == emphasis \/ Has(match.group1, "*")
                word_markup ==
                    (IF quoted THEN <<WORD_QUOTED>> ELSE <<>>)
                    \o (IF emphasized THEN <<WORD_EMPHASIZED>> ELSE <<>>)
                    \o (IF Has(match.group1, "'") THEN <<WORD_CONTENT>> ELSE <<>>)
                extended == Append(words, <<match.group2, word_markup>>)
                Done(flags) == [raised |-> FALSE, words |-> extended,
                                markup |-> markup \o flags, tokens |-> rest]
            IN  IF Breaks(match.group3)
                THEN Done(SentenceFlags(match.group3))
                ELSE ExtractLoop(rest, extended, markup,
                                 Carried(quoted, match.group3, "\""),
                                 Carried(emphasized, match.group3, "*"),
                                 sentence_number)

VARIABLES
    paragraph,   \* the tokens of the paragraph handed to paragraphToSound
    tokens,      \* the tokens not yet read
    sentences,   \* the sentences extracted so far
    parse_pc,    \* "idle", "extracting", "analyzed" or "raised"
    error        \* the word and sentence the ValueError names

parseVars == <<paragraph, tokens, sentences, parse_pc, error>>

NoError == [word |-> 0, sentence |-> 0]

MaxTokens == 3

TokenChoices ==
    {<<"a">>,
     <<"t", "a", ",">>,
     <<"*", "'", "a", "<", "*">>,
     <<"\"", "*", "a", "+", "n">>,
     <<"s", "a", ".">>,
     <<"a", "\"", "?", "!">>,
     <<"n", "!">>,
     <<"n", "\"">>,
     <<"t", "?">>,
     <<"s", "!", "?">>,
     <<".">>,
     <<"<", "a">>,
     <<"'", "*", "a">>,
     <<"a", ",", "<">>,
     <<"a", ".", "*">>,
     <<"a", "?", "?">>}

Paragraphs == UNION {[1..n -> TokenChoices] : n \in 0..MaxTokens}

\* paragraphs of a few tokens: words with and without terminal punctuation
\* and a token outside the grammar
MaxShortTokens == 3
ShortTokens == {<<"a">>, <<"s", "a", ".">>, <<"n", "!">>, <<"<", "a">>}
ShortParagraphs == UNION {[1..n -> ShortTokens] : n \in 0..MaxShortTokens}

\* paragraphToSound is entered: tokens = paragraph.split(), sentences = []
paragraphToSound(text) ==
    /\ parse_pc = "idle"
    /\ paragraph' = text
    /\ tokens' = text
    /\ sentences' = <<>>
    /\ parse_pc' = IF text = <<>> THEN "analyzed" ELSE "extracting"
    /\ UNCHANGED error

\* a call that enters its loop inside a quotation and an emphasis
_extractSentenceOpen(queue, sentence_number) ==
    ExtractLoop(queue, <<>>, <<>>, TRUE, TRUE, sentence_number)

\* _extractSentence: words = [], markup = [], quotation = False,
\* emphasis = False, then the loop
_extractSentence(queue, sentence_number) ==
    ExtractLoop(queue, <<>>, <<>>, FALSE, FALSE, sentence_number)

\* one pass of the while loop: a whole call of _extractSentence
extractSentence ==
    /\ parse_pc = "extracting"
    /\ \E result \in {_extractSentence(tokens, Len(sentences) + 1)} :
           IF result.raised
           THEN /\ parse_pc' = "raised"
                /\ error' = [word |-> result.word, sentence |-> result.sentence]
                /\ UNCHANGED <<tokens, sentences>>
           ELSE /\ sentences' = Append(sentences, <<result.words, result.markup>>)
                /\ tokens' = result.tokens
                /\ parse_pc' = IF result.tokens = <<>> THEN "analyzed"
                               ELSE "extracting"
                /\ UNCHANGED error
    /\ UNCHANGED paragraph

----------------------------------------------------------------------------
(* transform.py: _wordToSound, from the word's token to its phonemes.  A    *)
(* multiplier is a fraction <<numerator, denominator>>.                     *)

One == <<1, 1>>
Times(x, y) == <<x[1] * y[1], x[2] * y[2]>>

\* ipa.reduceIPAClusters: the symbols of the token, one element each
reduceIPAClusters(token) == token

\* the multipliers a new subject starts with, were they not reset
FreshKept(multiplier) == multiplier

\* duration_multiplier = pitch_multiplier = 1.0 behind a new subject
Fresh(multiplier) == One

VARIABLES
    word_pc,                   \* "idle", "collapsing" or "collapsed"
    terminal_pause,
    ipa_tokens,
    token_index,               \* how many of ipa_tokens[1:] have been read
    subject,
    word_duration_multiplier,  \* duration_multiplier of _wordToSound
    word_pitch_multiplier,     \* pitch_multiplier of _wordToSound
    phonemes

wordVars == <<word_pc, terminal_pause, ipa_tokens, token_index, subject,
              word_duration_multiplier, word_pitch_multiplier, phonemes>>

MaxClusterLen == 4

ClusterSymbols == {"a", "n"} \cup Extensions

\* group 2 of a matching token: a phoneme, phonemes and extensions, a comma or
\* none
Clusters ==
    LET cores == UNION {{c \in [1..n -> ClusterSymbols] : c[1] \in IPA_CHARACTERS}
                        : n \in 1..MaxClusterLen}
    IN  cores \cup {Append(c, ",") : c \in cores}

\* token.endswith(u',')
EndsWithComma(token) == token # <<>> /\ token[Len(token)] = ","

\* lines 145-160: the comma is taken off, the token reduced, the first symbol
\* made the subject
collapseBegin(token) ==
    /\ word_pc = "idle"
    /\ terminal_pause' = EndsWithComma(token)
    /\ ipa_tokens' = reduceIPAClusters(IF EndsWithComma(token)
                                       THEN SubSeq(token, 1, Len(token) - 1)
                                       ELSE token)
    /\ subject' = ipa_tokens'[1]
    /\ word_duration_multiplier' = One
    /\ word_pitch_multiplier' = One
    /\ token_index' = 0
    /\ phonemes' = <<>>
    /\ word_pc' = "collapsing"

\* one pass of "for i in ipa_tokens[1:]"
collapseStep ==
    /\ word_pc = "collapsing"
    /\ token_index + 1 < Len(ipa_tokens)
    /\ token_index' = token_index + 1
    /\ LET i == ipa_tokens[token_index + 2]
       IN  CASE i = ">" ->
                 /\ word_duration_multiplier' =
                        Times(word_duration_multiplier, <<3, 2>>)
                 /\ UNCHANGED <<word_pitch_multiplier, subject, phonemes>>
             [] i = "<" ->
                 /\ word_duration_multiplier' =
                        Times(word_duration_multiplier, <<1, 2>>)
                 /\ UNCHANGED <<word_pitch_multiplier, subject, phonemes>>
             [] i = "+" ->
                 /\ word_pitch_multiplier' =
                        Times(word_pitch_multiplier, <<19, 20>>)
                 /\ UNCHANGED <<word_duration_multiplier, subject, phonemes>>
             [] i = "-" ->
                 /\ word_pitch_multiplier' =
                        Times(word_pitch_multiplier, <<21, 20>>)
                 /\ UNCHANGED <<word_duration_multiplier, subject, phonemes>>
             [] OTHER ->
                 /\ phonemes' = Append(phonemes,
                        <<subject, word_duration_multiplier,
                          word_pitch_multiplier>>)
                 /\ subject' = i
                 /\ word_duration_multiplier' = Fresh(word_duration_multiplier)
                 /\ word_pitch_multiplier' = Fresh(word_pitch_multiplier)
    /\ UNCHANGED <<word_pc, terminal_pause, ipa_tokens>>

\* line 175: the last subject is appended
collapseEnd ==
    /\ word_pc = "collapsing"
    /\ token_index + 1 = Len(ipa_tokens)
    /\ phonemes' = Append(phonemes,
           <<subject, word_duration_multiplier, word_pitch_multiplier>>)
    /\ word_pc' = "collapsed"
    /\ UNCHANGED <<terminal_pause, ipa_tokens, token_index, subject,
                   word_duration_multiplier, word_pitch_multiplier>>

----------------------------------------------------------------------------
(* A record of the synthesize calls made, to compare one call with          *)
(* another: what each was given, what it drew and what it returned.        *)

VARIABLES
    draws,      \* the noise increments the call in progress has drawn
    stale,      \* whether a resonator held an echo when that call started
    history     \* the synthesize calls that have returned, in order

replayVars == <<draws, stale, history>>

\* the 16 resonators of the synthesizer
Resonators ==
    {cascade_resonators[n] : n \in 1..6}
    \cup {parallel_resonators[n] : n \in 1..5}
    \cup {glottal_antiresonator, glottal_pole_resonator,
          glottal_sine_resonator, nasal_antiresonator, nasal_pole_resonator}

\* self._delay_1 = self._delay_2 = 0.0
AtRest(r) == r.delay_1 = 0 /\ r.delay_2 = 0

\* the calls compared: frames of 1 and 3 samples at a pitch period of 1
\* sample, in both modes
ReplayInputs == {FrameSpeech(15), FrameSpeech(30)} \X {13} \X BOOLEAN

\* the call in progress, as it is recorded when it has returned
Recorded(d) ==
    [call |-> last_call', start |-> noise_before', draws |-> d,
     stale |-> stale', output |-> returned']

\* a synthesize call is entered
replayBegin(params, f0_multiplier, turbo_flag) ==
    /\ synthesizeBegin(params, f0_multiplier, turbo_flag)
    /\ draws' = <<>>
    /\ stale' = (\E r \in Resonators : ~AtRest(r))
    /\ history' = IF outcome' = "returned" THEN Append(history, Recorded(<<>>))
                  ELSE history

\* one pass of its loop
replayTick(step) ==
    /\ synthesizeTick(step)
    /\ draws' = Append(draws, step)
    /\ UNCHANGED stale
    /\ history' = IF outcome' = "returned"
                  THEN Append(history, Recorded(Append(draws, step)))
                  ELSE history

----------------------------------------------------------------------------
(* The same four stages with the identity of Python's lists kept: the heap *)
(* is the sequence of the list objects made so far, a reference is an      *)
(* index into it.  A parameter-set is a list of 33 numbers, a parameters   *)
(* list a list of references to parameter-sets.  The phoneme table's       *)
(* entries are the first objects of the heap.                              *)

MaxRules == 2

TableSymbols == <<"a", "A", "n", "t", "s", "h", "Q">>

\* ipa.IPA_PARAMETERS[c], as a reference
TableAddress(c) == CHOOSE a \in 1..Len(TableSymbols) : TableSymbols[a] = c

Table == [a \in 1..Len(TableSymbols) |-> IPA_PARAMETERS(TableSymbols[a])]

\* the list of the parameter-sets a parameters list refers to
Deref(h, list) == [k \in 1..Len(h[list]) |-> h[h[list][k]]]

\* answers of the operators below: the heap they leave and a reference
At2(h, ref) == [heap |-> h, ref |-> ref]

\* x = x: the same object under another name
Aliased(h, ref) == At2(h, ref)

\* x[:], a new list of the same elements
Copy(h, ref) == At2(Append(h, h[ref]), Len(h) + 1)

\* list[k] = object, k counted from 1, object a new list
SetItem(h, list, k, object) ==
    [Append(h, object) EXCEPT ![list] = [@ EXCEPT ![k] = Len(h) + 1]]

\* list.insert(k, object), k counted from 0, object a new list
InsertItem(h, list, k, object) ==
    [Append(h, object) EXCEPT ![list] = Insert(@, k, Len(h) + 1)]

\* list += objects, each a new list
RECURSIVE Extend(_, _, _)
Extend(h, list, objects) ==
    IF objects = <<>> THEN h
    ELSE Extend(InsertItem(h, list, Len(h[list]), Head(objects)), list,
                Tail(objects))

nasalizeVowelOnHeap(h, character, following, parameters_list_ref) ==
    LET local == Copy(h, parameters_list_ref)
        list == local.ref
    IN  IF ~Nasalizes(character, following) THEN local
        ELSE LET vowel == local.heap[local.heap[list][1]]
                 d == Duration(vowel)
                 v == Values(vowel)
                 n == Values(local.heap[TableAddress(following[1])])
                 h0 == SetItem(local.heap, list, 1, v \o <<NasalHalf(d)>>)
                 h1 == InsertItem(h0, list, 1,
                                  Blend(v, 2, n, 1) \o <<NasalLeadIn(d)>>)
             IN  At2(InsertItem(h1, list, 2,
                                Blend(v, 1, n, 2) \o <<NasalLeadOut(d)>>),
                     list)

bridgeWordsOnHeap(h, character, preceding, following, previous, parameters_list_ref) ==
    LET local == Copy(h, parameters_list_ref)
        list == local.ref
    IN  IF ~Bridges(character, preceding, previous) THEN local
        ELSE LET last == LastCharacter(previous)
                 first == local.heap[local.heap[list][1]]
             IN  IF last \in VOWELS
                 THEN At2(InsertItem(local.heap, list,
                              BridgeVowelPlace(local.heap[list]),
                              Values(local.heap[TableAddress("h")]) \o <<Ms(50)>>),
                          list)
                 ELSE At2(InsertItem(local.heap, list, 0,
                              Blend(Values(first), 1,
                                    Values(local.heap[TableAddress(last)]), 1)
                              \o <<Ms(50)>>),
                          list)

ShapeLeadOnHeap(h, character, preceding, list) ==
    IF preceding = <<>> THEN h
    ELSE LET lead == h[h[list][1]]
             h0 == SetItem(h, list, 1,
                           Values(lead) \o <<Trimmed(Duration(lead))>>)
         IN  IF character \notin STOPS
             THEN InsertItem(h0, list, 0,
                      Blend(Values(lead), 2,
                            Values(h0[TableAddress(Last(preceding))]), 1)
                      \o <<Ms(15)>>)
             ELSE InsertItem(h0, list, 0,
                      Values(h0[TableAddress("Q")]) \o <<Ms(15)>>)

ShapeTailOnHeap(h, character, following, list) ==
    IF ~ShapesTail(character, following) THEN h
    ELSE LET tail == h[Last(h[list])]
             h0 == SetItem(h, list, Len(h[list]),
                           Values(tail) \o <<Trimmed(Duration(tail))>>)
         IN  IF following[1] \notin STOPS
             THEN InsertItem(h0, list, Len(h0[list]),
                      Blend(Values(tail), 2,
                            Values(h0[TableAddress(following[1])]), 1)
                      \o <<Ms(15)>>)
             ELSE InsertItem(h0, list, Len(h0[list]),
                      Values(h0[TableAddress("h")]) \o <<Ms(15)>>)

shapeContoursOnHeap(h, character, preceding, following, parameters_list_ref) ==
    LET local == Copy(h, parameters_list_ref)
    IN  At2(ShapeTailOnHeap(
                ShapeLeadOnHeap(local.heap, character, preceding, local.ref),
                character, following, local.ref),
            local.ref)

\* The loop of applyRules from the i-th parameter-set on; transformed is
\* the reference of transformed_parameters, multipliers is f0_multipliers.
\* What the rule functions do to the parameter-set they are handed lands in
\* the object `parameters` names.
RECURSIVE ApplyParametersOnHeap(_, _, _, _, _, _, _)
ApplyParametersOnHeap(h, rule_functions, context, list, i, transformed, multipliers) ==
    IF i > Len(h[list])
    THEN [heap |-> h, ref |-> transformed, multipliers |-> multipliers]
    ELSE LET local == Copy(h, h[list][i])
             acc == ApplyFunctions(rule_functions, context,
                        Deref(local.heap, transformed), Len(h[list]) - i,
                        [parameters |-> local.heap[local.ref],
                         f0_multiplier |-> MulDen,
                         preceding_parameters |-> <<>>,
                         following_parameters |-> <<>>])
             h0 == [local.heap EXCEPT ![local.ref] = acc.parameters]
             h1 == Extend(h0, transformed, acc.preceding_parameters)
             h2 == [h1 EXCEPT ![transformed] = Append(@, local.ref)]
             h3 == Extend(h2, transformed, acc.following_parameters)
             added == Len(acc.preceding_parameters) + 1
                      + Len(acc.following_parameters)
         IN  ApplyParametersOnHeap(h3, rule_functions, context, list, i + 1,
                 transformed,
                 multipliers \o [k \in 1..added |-> acc.f0_multiplier])

applyRulesOnHeap(h, rule_functions, context, parameters_list_ref) ==
    ApplyParametersOnHeap(Append(h, <<>>), rule_functions, context,
                          parameters_list_ref, 1, Len(h) + 1, <<>>)

VARIABLES
    heap,           \* the list objects
    held,           \* _phonemeToSound's parameters_list, a reference
    handed,         \* the reference handed to the stage just passed
    heap_before,    \* the heap when it was handed
    heap_stage,     \* where _phonemeToSound stands
    heap_context,   \* the phoneme and its surroundings
    behaviours,     \* the rule functions of the ruleset in force
    heap_multipliers \* the f0 multipliers applyRules answered with

heapVars == <<heap, held, handed, heap_before, heap_stage, heap_context,
              behaviours, heap_multipliers>>

\* the phonemes and their surroundings
HeapWords == UNION {[1..n -> {"a", "n", "t"}] : n \in 1..2}

\* the p-th phoneme of the word w after the words before it
ContextAt(w, p, previous) ==
    [ipa_character |-> w[p],
     preceding_phonemes |-> SubSeq(w, 1, p - 1),
     following_phonemes |-> SubSeq(w, p + 1, Len(w)),
     previous_words |-> previous]

HeapContexts ==
    UNION {{ContextAt(w, p, previous) : p \in 1..Len(w)} :
              w \in HeapWords,
              previous \in {<<>>, <<<<"s", "a">>>>, <<<<"a", "n">>>>}}

\* what the rule functions of a ruleset may do
Behaviours ==
    {[boost |-> 0, multiplier |-> 1000, last |-> 1000,
      before |-> <<>>, after |-> <<>>],
     [boost |-> 5, multiplier |-> 975, last |-> 975,
      before |-> <<>>, after |-> <<>>],
     [boost |-> 0, multiplier |-> 1000, last |-> 900,
      before |-> <<Ms(11)>>, after |-> <<Ms(12)>>],
     [boost |-> 3, multiplier |-> 950, last |-> 950,
      before |-> <<Ms(21)>>, after |-> <<Ms(22), Ms(23)>>]}

Rulesets == UNION {[1..n -> Behaviours] : n \in 0..MaxRules}

\* _phonemeToSound with a duration multiplier of 1: parameters =
\* list(parameters); parameters[-1] = ...; parameters_list = [parameters]
enterPhoneme(context, ruleset) ==
    /\ heap_stage = "idle"
    /\ heap_context' = context
    /\ behaviours' = ruleset
    /\ LET entry == heap[TableAddress(context.ipa_character)]
           h0 == Append(heap, Values(entry) \o <<Duration(entry)>>)
       IN  /\ heap' = Append(h0, <<Len(h0)>>)
           /\ held' = Len(h0) + 1
    /\ handed' = 0
    /\ heap_before' = <<>>
    /\ heap_stage' = "base"
    /\ heap_multipliers' = <<>>

callNasalizeVowel ==
    /\ heap_stage = "base"
    /\ heap_stage' = "nasalized"
    /\ handed' = held
    /\ heap_before' = heap
    /\ LET result == nasalizeVowelOnHeap(heap, heap_context.ipa_character,
                         heap_context.following_phonemes, held)
       IN  heap' = result.heap /\ held' = result.ref
    /\ UNCHANGED <<heap_context, behaviours, heap_multipliers>>

callBridgeWords ==
    /\ heap_stage = "nasalized"
    /\ heap_stage' = "bridged"
    /\ handed' = held
    /\ heap_before' = heap
    /\ LET result == bridgeWordsOnHeap(heap, heap_context.ipa_character,
                         heap_context.preceding_phonemes,
                         heap_context.following_phonemes,
                         heap_context.previous_words, held)
       IN  heap' = result.heap /\ held' = result.ref
    /\ UNCHANGED <<heap_context, behaviours, heap_multipliers>>

callShapeContours ==
    /\ heap_stage = "bridged"
    /\ heap_stage' = "shaped"
    /\ handed' = held
    /\ heap_before' = heap
    /\ LET result == shapeContoursOnHeap(heap, heap_context.ipa_character,
                         heap_context.preceding_phonemes,
                         heap_context.following_phonemes, held)
       IN  heap' = result.heap /\ held' = result.ref
    /\ UNCHANGED <<heap_context, behaviours, heap_multipliers>>

callApplyRules ==
    /\ heap_stage = "shaped"
    /\ heap_stage' = "ruled"
    /\ handed' = held
    /\ heap_before' = heap
    /\ LET result == applyRulesOnHeap(heap, Ruleset(behaviours), heap_context,
                                      held)
       IN  /\ heap' = result.heap
           /\ held' = result.ref
           /\ heap_multipliers' = result.multipliers
    /\ UNCHANGED <<heap_context, behaviours>>

\* _phonemeToSound returns; its lists are garbage
leavePhoneme ==
    /\ heap_stage = "ruled"
    /\ heap_stage' = "idle"
    /\ heap' = Table
    /\ held' = 0
    /\ handed' = 0
    /\ heap_before' = <<>>
    /\ heap_context' = ContextAt(<<"a">>, 1, <<>>)
    /\ behaviours' = <<>>
    /\ heap_multipliers' = <<>>

----------------------------------------------------------------------------
(* languages/english_canadian.py: the rule functions, each called with the *)
(* arguments of the documented signature (those no rule function reads are *)
(* left out) and answering with the parameter-sets to put before and after *)
(* the current one, its f0 multiplier in thousandths and the current       *)
(* parameter-set as it has left it.  The phoneme classes are those of ipa, *)
(* in the model's alphabet: "e" stands for the schwa, "v" for the wedge,   *)
(* "l" for a liquid.                                                       *)

SCHWA == "e"
WEDGE == "v"
LIQUIDS == {"l"}
RULE_VOWELS == VOWELS \cup {SCHWA, WEDGE}

\* _QUESTION_WORDS, in the model's alphabet
QUESTION_WORDS == {<<"h", "a">>}

\* x *= num / den, cut to the unit of the field
ScaledBy(x, num, den) == (x * num) \div den

\* x ** n
RECURSIVE Raised(_, _)
Raised(x, n) == IF n = 0 THEN 1 ELSE x * Raised(x, n - 1)

\* x / y in thousandths, by long division
Thousandths(x, y) ==
    LET r1 == (x % y) * 10
        r2 == (r1 % y) * 10
        r3 == (r2 % y) * 10
    IN  (x \div y) * MulDen + (r1 \div y) * 100 + (r2 \div y) * 10 + r3 \div y

\* the words of a list that are question words; the vowels of a list
QuestionWordsOf(words) == {k \in 1..Len(words) : words[k] \in QUESTION_WORDS}
VowelsOf(list) == {k \in 1..Len(list) : list[k] \in RULE_VOWELS}

\* return (preceding, following, multiplier), parameters left as given
Answer(preceding, following, multiplier, frame) ==
    [preceding_params |-> preceding, following_params |-> following,
     multiplier |-> multiplier, parameters |-> frame]

_amplifyContent(args) ==
    IF args.is_content /\ args.ipa_character # SCHWA
    THEN LET boosted == [args.parameters EXCEPT ![iF1] = ScaledBy(@, 125, 100)]
         IN  IF args.ipa_character \in RULE_VOWELS
             THEN Answer(<<>>, <<>>, 950,
                         [boosted EXCEPT ![iMS] = ScaledBy(@, 11, 10)])
             ELSE Answer(<<>>, <<>>, MulDen, boosted)
    ELSE Answer(<<>>, <<>>, MulDen, args.parameters)

\* decay_ratio = 1.0 - (0.05 / n) is (20n - 1) / 20n for n = word_position +
\* remaining_words; 1.0 / (decay_ratio ** word_position), in thousandths
_degradePitch(args) ==
    IF ~args.is_question
    THEN LET n == args.word_position + args.remaining_words
         IN  Answer(<<>>, <<>>,
                    Thousandths(Raised(20 * n, args.word_position),
                                Raised(20 * n - 1, args.word_position)),
                    args.parameters)
    ELSE Answer(<<>>, <<>>, MulDen, args.parameters)

_emphasizeSpeech(args) ==
    IF args.is_emphasized /\ args.ipa_character \notin STOPS
    THEN Answer(<<>>, <<>>, 950,
                [args.parameters EXCEPT ![iAB] = @ + 5,
                                        ![iMS] = ScaledBy(@, 11, 10)])
    ELSE Answer(<<>>, <<>>, MulDen, args.parameters)

\* min(x + 5, 60)
RaisedVoicing(x) == IF x + 5 < 60 THEN x + 5 ELSE 60

\* the return of line 143 is reached by every call that has not returned
\* from the exclamation branch, the calls for other sentences among them
_exclaim(args) ==
    LET loud == [args.parameters EXCEPT
                    ![iBW1] = ScaledBy(@, 11, 10),
                    ![iBW1 + 1] = ScaledBy(@, 11, 10),
                    ![iBW1 + 2] = ScaledBy(@, 11, 10),
                    ![iAV] = RaisedVoicing(@),
                    ![iAVS] = RaisedVoicing(@),
                    ![iMS] = ScaledBy(@, 95, 100)]
    IN  IF args.is_exclamation /\ args.is_question
        THEN Answer(<<>>, <<>>, 950, loud)
        ELSE IF /\ args.is_exclamation
                /\ args.ipa_character \in RULE_VOWELS
                /\ VowelsOf(args.following_phonemes) = {}
        THEN Answer(<<>>, <<>>, 950,
                    [loud EXCEPT ![iMS] = ScaledBy(@, 135, 100)])
        ELSE Answer(<<>>, <<>>, 975,
                    IF args.is_exclamation THEN loud ELSE args.parameters)

\* rise_ratio = 1.0 - (0.11 / m) is (100m - 11) / 100m; -0.05 + rise_ratio
\* ** n, in thousandths
RiseRatio(n, m) ==
    Thousandths(Raised(100 * m - 11, n), Raised(100 * m, n)) - 50

_inflectQuestionPitch(args) ==
    LET asked == QuestionWordsOf(args.previous_words) # {}
        whole_word == args.preceding_phonemes \o <<args.ipa_character>>
                \o args.following_phonemes
        vowels_before == Cardinality(VowelsOf(args.preceding_phonemes))
    IN  IF ~(/\ args.is_question
             /\ args.ipa_character # SCHWA
             /\ args.ipa_character \in RULE_VOWELS)
        THEN Answer(<<>>, <<>>, MulDen, args.parameters)
        ELSE IF args.remaining_words <= 2 /\ asked
        THEN IF args.remaining_words = 2 /\ args.following_words[1] = <<WEDGE>>
             THEN Answer(<<>>, <<>>, 700, args.parameters)
             ELSE IF /\ args.remaining_words = 1
                     /\ args.following_phonemes = <<>>
                     /\ args.preceding_phonemes = <<>>
                     /\ args.ipa_character # WEDGE
             THEN Answer(<<>>, <<>>, 800, args.parameters)
             ELSE Answer(<<>>, <<>>, 900, args.parameters)
        ELSE IF args.remaining_words = 0
        THEN Answer(<<>>, <<>>,
                 RiseRatio(vowels_before,
                     vowels_before + Cardinality(VowelsOf(args.following_phonemes))
                     + 1),
                 args.parameters)
        ELSE IF whole_word \in QUESTION_WORDS /\ ~asked
        THEN Answer(<<>>, <<>>, 900, args.parameters)
        ELSE Answer(<<>>, <<>>, MulDen, args.parameters)

_lengthenTerminal(args) ==
    IF /\ args.remaining_words = 0
       /\ args.ipa_character # SCHWA
       /\ args.ipa_character \in RULE_VOWELS
    THEN Answer(<<>>, <<>>, MulDen,
                [args.parameters EXCEPT ![iMS] = ScaledBy(@, 15, 10)])
    ELSE Answer(<<>>, <<>>, MulDen, args.parameters)

\* a liquid before a vowel
Liquidates(args) ==
    /\ args.remaining_phoneme_parameter_count = 0
    /\ args.following_phonemes # <<>>
    /\ args.ipa_character \in LIQUIDS
    /\ args.following_phonemes[1] \in RULE_VOWELS

_liquidateVowels(args) ==
    IF Liquidates(args)
    THEN LET vowel_values == IPA_PARAMETERS(args.following_phonemes[1])
         IN  Answer(<<>>,
                    <<Blend(Values(args.parameters), 1, Values(vowel_values), 2)
                      \o <<IntMs(Duration(vowel_values), 1, 4)>> >>,
                    MulDen, args.parameters)
    ELSE Answer(<<>>, <<>>, MulDen, args.parameters)

_quoteSpeech(args) ==
    IF args.is_quoted
    THEN Answer(<<>>, <<>>, 975,
                [args.parameters EXCEPT ![iAB] = @ + 5,
                                        ![iMS] = ScaledBy(@, 925, 1000)])
    ELSE Answer(<<>>, <<>>, MulDen, args.parameters)

_shortenDipthong(args) ==
    IF /\ args.preceding_phonemes # <<>>
       /\ args.ipa_character \in RULE_VOWELS
       /\ Last(args.preceding_phonemes) \in RULE_VOWELS
    THEN Answer(<<>>, <<>>, MulDen,
                [args.parameters EXCEPT ![iMS] = ScaledBy(@, 5, 10)])
    ELSE Answer(<<>>, <<>>, MulDen, args.parameters)

\* RULE_FUNCTIONS of english_canadian, by name and in order
ENGLISH_CANADIAN ==
    <<"_liquidateVowels", "_inflectQuestionPitch", "_amplifyContent",
      "_emphasizeSpeech", "_quoteSpeech", "_degradePitch",
      "_lengthenTerminal", "_shortenDipthong", "_exclaim">>

VARIABLES
    rule_called,      \* the rule function that has been called, or "none"
    rule_arguments,   \* what it was called with
    rule_answer       \* what it answered with

languageVars == <<rule_called, rule_arguments, rule_answer>>

\* the words of a sentence and the phonemes of its words
RuleWords ==
    {<<"a">>, <<"v">>, <<"e">>, <<"l", "a">>, <<"a", "A">>, <<"h", "a">>,
     <<"t", "a", "l">>}
RuleSentences ==
    {<<w>> : w \in RuleWords}
    \cup {<<<<"h", "a">>, w>> : w \in RuleWords}
    \cup {<<w, <<"a">>>> : w \in RuleWords}
    \cup {<<<<"h", "a">>, w, <<"v">>, <<"a">>>> : w \in {<<"a">>, <<"t", "a", "l">>}}
    \cup {<<<<"h", "a">>, <<"a">>, <<"a">>>>}

\* the parameter-set of a phoneme of the model's alphabet
RuleFrame(c) ==
    IF c \in IPA_SYMBOLS THEN IPA_PARAMETERS(c)
    ELSE [i \in 1..32 |-> 50 + i] \o <<Ms(80)>>

\* _sentenceToSound (104), _wordToSound and _phonemeToSound (259): the
\* arguments for the p-th phoneme of the i-th word of a sentence
RuleArgumentsAt(sentence, i, p, flags, remaining) ==
    [ipa_character |-> sentence[i][p],
     preceding_phonemes |-> SubSeq(sentence[i], 1, p - 1),
     following_phonemes |-> SubSeq(sentence[i], p + 1, Len(sentence[i])),
     word_position |-> i,
     remaining_words |-> Len(sentence) - i,
     previous_words |-> SubSeq(sentence, 1, i - 1),
     following_words |-> SubSeq(sentence, i + 1, Len(sentence)),
     is_quoted |-> flags[1],
     is_emphasized |-> flags[2],
     is_content |-> flags[3],
     is_question |-> flags[4],
     is_exclamation |-> flags[5],
     remaining_phoneme_parameter_count |-> remaining,
     parameters |-> RuleFrame(sentence[i][p])]

RuleCalls ==
    UNION {UNION {{RuleArgumentsAt(sentence, i, p, flags, remaining) :
                      p \in 1..Len(sentence[i])} : i \in 1..Len(sentence)} :
              sentence \in RuleSentences,
              flags \in [1..5 -> BOOLEAN],
              remaining \in {0, 1}}

NoRuleCall == RuleArgumentsAt(<<<<"a">>>>, 1, 1, [k \in 1..5 |-> FALSE], 0)

\* applyRules, line 86: one rule function is called
callRule(name, args, answer) ==
    /\ rule_called = "none"
    /\ rule_called' = name
    /\ rule_arguments' = args
    /\ rule_answer' = answer

\* the answer is taken over (87-89)
ruleReturn ==
    /\ rule_called # "none"
    /\ rule_called' = "none"
    /\ rule_arguments' = NoRuleCall
    /\ rule_answer' = Answer(<<>>, <<>>, MulDen, NoRuleCall.parameters)

----------------------------------------------------------------------------
(* waveform.py: WaveForm.  The wave file is what has been written to it and *)
(* how often it has been closed.                                           *)

MaxWaveCalls == 6

VARIABLES
    finalized,         \* WaveForm._finalized
    wavefile_frames,   \* the samples written to WaveForm._wavefile
    wavefile_closes,   \* how often WaveForm._wavefile was closed
    wave_last,         \* the last call: its name, what it met, what it raised
    wave_calls,        \* calls made so far
    close_calls        \* calls of close among them

waveVars == <<finalized, wavefile_frames, wavefile_closes, wave_last,
              wave_calls, close_calls>>

\* what addSamples is given: nothing, samples, a sample that is no 16-bit
\* integer
SampleChoices == {<<>>, <<0>>, <<1, -1>>, <<32768>>}

\* struct.pack('h', sample) raises struct.error
PackRaises(samples) ==
    \E k \in 1..Len(samples) : samples[k] < -32768 \/ samples[k] > 32767

\* the call as it is remembered
WaveCall(op, raised) ==
    [op |-> op, raised |-> raised, finalized |-> finalized,
     frames |-> wavefile_frames]

addSamples(samples) ==
    /\ wave_calls < MaxWaveCalls
    /\ wave_calls' = wave_calls + 1
    /\ IF finalized
       THEN /\ wave_last' = WaveCall("addSamples", "IOError")
            /\ UNCHANGED wavefile_frames
       ELSE IF PackRaises(samples)
       THEN /\ wave_last' = WaveCall("addSamples", "struct.error")
            /\ UNCHANGED wavefile_frames
       ELSE /\ wave_last' = WaveCall("addSamples", "none")
            /\ wavefile_frames' = wavefile_frames \o samples
    /\ UNCHANGED <<finalized, wavefile_closes, close_calls>>

\* a close that does not look at the flag
ClosesFileAlways(flag) == TRUE

\* if not self._finalized
ClosesFile(flag) == ~flag

close ==
    /\ wave_calls < MaxWaveCalls
    /\ wave_calls' = wave_calls + 1
    /\ close_calls' = close_calls + 1
    /\ wave_last' = WaveCall("close", "none")
    /\ IF ClosesFile(finalized)
       THEN /\ wavefile_closes' = wavefile_closes + 1
            /\ finalized' = TRUE
       ELSE UNCHANGED <<wavefile_closes, finalized>>
    /\ UNCHANGED wavefile_frames

----------------------------------------------------------------------------
(* klatt.py: main, and transform.py: paragraphToSound to _phonemeToSound,  *)
(* as far as the calls of the synthesizer and of the wave file go.  What a *)
(* call of synthesize returns is stood for by one sample that names the    *)
(* phoneme, what it does to the noise accumulator by one draw; a quarter   *)
(* of a second of silence is stood for by one zero.                        *)

MaxParagraphs == 2

\* the symbols ipa.IPA_DATA has an entry for: the lookup fails for any other
IPA_DATA_SYMBOLS == IPA_SYMBOLS \ {"Q"}

VARIABLES
    render_pc,          \* where main stands
    paragraph_count,
    pending,            \* what the sentence loop has still to do
    segment,            \* sounds of _sentenceToSound and _wordToSound
    paragraph_sounds,   \* sounds of paragraphToSound
    failure,            \* the exception that reached main
    synthesizer_calls,  \* calls of the synthesizer made for this paragraph
    noise_at_entry,     \* the accumulator when paragraphToSound was entered
    written             \* the paragraph of every segment written

renderVars == <<render_pc, paragraph_count, pending, segment,
                paragraph_sounds, failure, synthesizer_calls, noise_at_entry,
                written>>

\* the synthesizer but for its accumulator
callVars == <<resonatorVars, loopVars, pc, last_call, outcome, returned,
              noise_before, calls>>

\* the paragraphs of the input file
RenderParagraphs ==
    {<<<<"s", "a", ".">>>>,
     <<<<"t", "a", ",">>, <<"n", "!">>>>,
     <<<<"t", "a", ",">>, <<"s", "a", ".">>, <<"n", "!">>>>,
     <<<<"a">>, <<"<", "a">>>>,
     <<<<"s", "a", ".">>, <<".">>>>,
     <<<<"s", "Q", ".">>>>,
     <<<<"s", "a", ".">>, <<"Q">>>>}

\* synthesizer.generateSilence(250), generateSilence(500): what is returned
QuarterSecond == SilenceOf(Ms(250))
HalfSecond == SilenceOf(Ms(500))

\* what synthesize returns for the frames of a phoneme
SoundOf(c) == <<TableAddress(c)>>

IsPhoneme(c) == c \notin Extensions

\* _wordToSound: the phonemes of the word in order, and its pause
WordWork(token) ==
    LET bare == IF EndsWithComma(token) THEN SubSeq(token, 1, Len(token) - 1)
                ELSE token
    IN  SelectSeq(reduceIPAClusters(bare), IsPhoneme)
        \o (IF EndsWithComma(token) THEN <<",">> ELSE <<>>)

\* _sentenceToSound: the words from the j-th on, and the end of the sentence
RECURSIVE SentenceWork(_, _)
SentenceWork(words, j) ==
    IF j > Len(words) THEN <<"end">>
    ELSE WordWork(words[j][1]) \o SentenceWork(words, j + 1)

\* the for loop of paragraphToSound, from the i-th sentence on
RECURSIVE Work(_, _)
Work(list, i) ==
    IF i > Len(list) THEN <<>>
    ELSE SentenceWork(list[i][1], 1) \o Work(list, i + 1)

\* main takes the next paragraph of the file and calls paragraphToSound
renderParagraph(text) ==
    /\ render_pc = "idle"
    /\ paragraph_count < MaxParagraphs
    /\ paragraph_count' = paragraph_count + 1
    /\ paragraphToSound(text)
    /\ render_pc' = "analysing"
    /\ pending' = <<>>
    /\ segment' = <<>>
    /\ paragraph_sounds' = <<>>
    /\ failure' = "none"
    /\ synthesizer_calls' = 0
    /\ noise_at_entry' = noise
    /\ UNCHANGED <<written, noise>>

\* one pass of the while loop of paragraphToSound; its ValueError reaches
\* main's except clause
renderExtract ==
    /\ render_pc = "analysing"
    /\ extractSentence
    /\ render_pc' = IF parse_pc' = "raised" THEN "failed" ELSE render_pc
    /\ failure' = IF parse_pc' = "raised" THEN "ValueError" ELSE failure
    /\ UNCHANGED <<paragraph_count, pending, segment, paragraph_sounds,
                   synthesizer_calls, noise_at_entry, written, noise>>

\* a paragraphToSound that takes its half second of silence on entry
renderSilenceEarly ==
    /\ render_pc = "analysing"
    /\ \/ /\ synthesizer_calls = 0
          /\ parse_pc = "extracting"
          /\ noise' = SilenceNoise
          /\ synthesizer_calls' = 1
          /\ UNCHANGED <<render_pc, pending>>
       \/ /\ synthesizer_calls = 1
          /\ parse_pc = "analyzed"
          /\ render_pc' = "sounding"
          /\ pending' = Work(sentences, 1)
          /\ UNCHANGED <<noise, synthesizer_calls>>
    /\ UNCHANGED <<paragraph_count, segment, paragraph_sounds, failure,
                   noise_at_entry, written, parseVars>>

\* line 64: silent_half_second = synthesizer.generateSilence(500), once the
\* paragraph is analyzed
renderSilence ==
    /\ render_pc = "analysing"
    /\ parse_pc = "analyzed"
    /\ noise' = SilenceNoise
    /\ synthesizer_calls' = synthesizer_calls + 1
    /\ render_pc' = "sounding"
    /\ pending' = Work(sentences, 1)
    /\ UNCHANGED <<paragraph_count, segment, paragraph_sounds, failure,
                   noise_at_entry, written, parseVars>>

\* sounds.append(sentence_sounds + silent_half_second): one segment
SentenceSoundsJoined(list, sentence_sounds, silence) ==
    Append(list, sentence_sounds \o silence)

\* lines 67-68: sounds.append(_sentenceToSound(...)) and
\* sounds.append(silent_half_second)
SentenceSounds(list, sentence_sounds, silence) ==
    Append(Append(list, sentence_sounds), silence)

\* the sentence loop goes one step: a phoneme is looked up and synthesized,
\* a pause is taken, or a sentence is complete
renderStep(step) ==
    /\ render_pc = "sounding"
    /\ pending # <<>>
    /\ LET item == Head(pending)
       IN  IF item = "end"
           THEN /\ paragraph_sounds' =
                       SentenceSounds(paragraph_sounds, segment, HalfSecond)
                /\ segment' = <<>>
                /\ pending' = Tail(pending)
                /\ UNCHANGED <<render_pc, failure, synthesizer_calls, noise>>
           ELSE IF item = ","
           THEN /\ noise' = SilenceNoise
                /\ synthesizer_calls' = synthesizer_calls + 1
                /\ segment' = segment \o QuarterSecond
                /\ pending' = Tail(pending)
                /\ UNCHANGED <<render_pc, failure, paragraph_sounds>>
           ELSE IF item \in IPA_DATA_SYMBOLS
           THEN /\ noise' = getNoise(noise, step)
                /\ synthesizer_calls' = synthesizer_calls + 1
                /\ segment' = segment \o SoundOf(item)
                /\ pending' = Tail(pending)
                /\ UNCHANGED <<render_pc, failure, paragraph_sounds>>
           ELSE /\ failure' = "KeyError"
                /\ render_pc' = "failed"
                /\ segment' = <<>>
                /\ paragraph_sounds' = <<>>
                /\ pending' = <<>>
                /\ UNCHANGED <<synthesizer_calls, noise>>
    /\ UNCHANGED <<paragraph_count, noise_at_entry, written, parseVars>>

\* paragraphToSound returns its sounds to main
renderReturn ==
    /\ render_pc = "sounding"
    /\ pending = <<>>
    /\ render_pc' = "writing"
    /\ parse_pc' = "idle"
    /\ UNCHANGED <<paragraph_count, pending, segment, paragraph_sounds,
                   failure, synthesizer_calls, noise_at_entry, written, noise,
                   paragraph, tokens, sentences, error>>

\* main: wave_form.addSamples(segment) for the next segment, and
\* wave_form.addSamples(silent_half_second) behind the last
renderWrite ==
    /\ render_pc = "writing"
    /\ IF paragraph_sounds # <<>>
       THEN /\ addSamples(Head(paragraph_sounds))
            /\ paragraph_sounds' = Tail(paragraph_sounds)
            /\ UNCHANGED render_pc
       ELSE /\ addSamples(HalfSecond)
            /\ render_pc' = "idle"
            /\ UNCHANGED paragraph_sounds
    /\ written' = Append(written, paragraph_count)
    /\ UNCHANGED <<paragraph_count, pending, segment, failure,
                   synthesizer_calls, noise_at_entry, noise, parseVars>>

\* main: the file has no more paragraph, wave_form.close()
renderClose ==
    /\ render_pc = "idle"
    /\ close
    /\ render_pc' = "closed"
    /\ UNCHANGED <<paragraph_count, pending, segment, paragraph_sounds,
                   failure, synthesizer_calls, noise_at_entry, written, noise,
                   parseVars>>

----------------------------------------------------------------------------
(* The specifications: the synthesizer, the parameter pipeline and the     *)
(* parser, each run from the state the three start in                      *)

InitSynth ==
    /\ noise = 0
    /\ cascade_resonators = [n \in 1..6 |-> NoResonator]
    /\ parallel_resonators = [n \in 1..5 |-> NoResonator]
    /\ glottal_antiresonator = NoResonator
    /\ glottal_pole_resonator = NoResonator
    /\ glottal_sine_resonator = NoResonator
    /\ nasal_antiresonator = NoResonator
    /\ nasal_pole_resonator = NoResonator
    /\ pc = "idle"
    /\ parameters = <<>>
    /\ f0_hz = 0
    /\ turbo = FALSE
    /\ samples_target = 0
    /\ t = 0
    /\ period_index = 0
    /\ last_result = 0
    /\ sounds = <<>>
    /\ last_call = [op |-> "none"]
    /\ outcome = "none"
    /\ returned = <<>>
    /\ noise_before = 0
    /\ calls = 0

InitRules ==
    /\ language \in Languages
    /\ word = <<>>
    /\ previous_words = <<>>
    /\ position = 0
    /\ duration_multiplier = MulDen
    /\ stage = "idle"
    /\ stage_in = <<>>
    /\ parameters_list = <<>>
    /\ f0_multipliers = <<>>

InitParse ==
    /\ paragraph = <<>>
    /\ tokens = <<>>
    /\ sentences = <<>>
    /\ parse_pc = "idle"
    /\ error = NoError

InitWord ==
    /\ word_pc = "idle"
    /\ terminal_pause = FALSE
    /\ ipa_tokens = <<>>
    /\ token_index = 0
    /\ subject = ""
    /\ word_duration_multiplier = One
    /\ word_pitch_multiplier = One
    /\ phonemes = <<>>

InitHeap ==
    /\ heap = Table
    /\ held = 0
    /\ handed = 0
    /\ heap_before = <<>>
    /\ heap_stage = "idle"
    /\ heap_context = ContextAt(<<"a">>, 1, <<>>)
    /\ behaviours = <<>>
    /\ heap_multipliers = <<>>

InitReplay ==
    /\ draws = <<>>
    /\ stale = FALSE
    /\ history = <<>>

InitWave ==
    /\ finalized = FALSE
    /\ wavefile_frames = <<>>
    /\ wavefile_closes = 0
    /\ wave_last = [op |-> "none", raised |-> "none", finalized |-> FALSE,
                    frames |-> <<>>]
    /\ wave_calls = 0
    /\ close_calls = 0

InitRender ==
    /\ render_pc = "idle"
    /\ paragraph_count = 0
    /\ pending = <<>>
    /\ segment = <<>>
    /\ paragraph_sounds = <<>>
    /\ failure = "none"
    /\ synthesizer_calls = 0
    /\ noise_at_entry = 0
    /\ written = <<>>

InitLanguage ==
    /\ rule_called = "none"
    /\ rule_arguments = NoRuleCall
    /\ rule_answer = Answer(<<>>, <<>>, MulDen, NoRuleCall.parameters)

vars == <<synthVars, ruleVars, parseVars, wordVars, heapVars, replayVars,
          waveVars, renderVars, languageVars>>

Init ==
    /\ InitSynth
    /\ InitRules
    /\ InitParse
    /\ InitWord
    /\ InitHeap
    /\ InitReplay
    /\ InitWave
    /\ InitRender
    /\ InitLanguage

otherThanSynth ==
    <<ruleVars, parseVars, wordVars, heapVars, replayVars, waveVars,
      renderVars, languageVars>>
otherThanRules ==
    <<synthVars, parseVars, wordVars, heapVars, replayVars, waveVars,
      renderVars, languageVars>>
otherThanParse ==
    <<synthVars, ruleVars, wordVars, heapVars, replayVars, waveVars,
      renderVars, languageVars>>
otherThanWord ==
    <<synthVars, ruleVars, parseVars, heapVars, replayVars, waveVars,
      renderVars, languageVars>>
otherThanHeap ==
    <<synthVars, ruleVars, parseVars, wordVars, replayVars, waveVars,
      renderVars, languageVars>>
otherThanReplay ==
    <<ruleVars, parseVars, wordVars, heapVars, waveVars,
      renderVars, languageVars>>
otherThanWave ==
    <<synthVars, ruleVars, parseVars, wordVars, heapVars, replayVars,
      renderVars, languageVars>>
otherThanRender ==
    <<callVars, ruleVars, wordVars, heapVars, replayVars, languageVars>>
otherThanLanguage ==
    <<synthVars, ruleVars, parseVars, wordVars, heapVars, replayVars,
      waveVars, renderVars>>

Silence ==
    /\ pc = "idle"
    /\ \E ms \in SilenceDurations : generateSilence(ms)
    /\ UNCHANGED otherThanSynth
Begin ==
    /\ pc = "idle"
    /\ \E in \in SynthInputs : synthesizeBegin(in[1], in[2], in[3])
    /\ UNCHANGED otherThanSynth
Tick ==
    /\ \E step \in NoiseSteps : synthesizeTick(step)
    /\ UNCHANGED otherThanSynth

NextSynth == Silence \/ Begin \/ Tick
SpecSynth == Init /\ [][NextSynth]_vars

Word ==
    /\ stage = "idle"
    /\ \E token \in Words, previous \in PreviousWordsChoices :
           wordToSound(token, previous)
    /\ UNCHANGED otherThanRules
Phoneme ==
    /\ \E multiplier \in DurationMultipliers : phonemeToSound(multiplier)
    /\ UNCHANGED otherThanRules
Nasalization == applyNasalization /\ UNCHANGED otherThanRules
Liaisons == applyLiaisons /\ UNCHANGED otherThanRules
Contours == applyContours /\ UNCHANGED otherThanRules
LanguageRules == applyLanguageRules /\ UNCHANGED otherThanRules
WordReturn == wordToSoundReturn /\ UNCHANGED otherThanRules

NextRules ==
    \/ Word
    \/ Phoneme
    \/ Nasalization
    \/ Liaisons
    \/ Contours
    \/ LanguageRules
    \/ WordReturn
SpecRules == Init /\ [][NextRules]_vars

Paragraph ==
    /\ parse_pc = "idle"
    /\ \E text \in Paragraphs : paragraphToSound(text)
    /\ UNCHANGED otherThanParse
Sentence == extractSentence /\ UNCHANGED otherThanParse

NextParse == Paragraph \/ Sentence
SpecParse == Init /\ [][NextParse]_vars

\* The same with the paragraphs of ShortParagraphs, and the while loop of
\* paragraphToSound running on while it has tokens: a pass that can be made
\* is made.
ParagraphShort ==
    /\ parse_pc = "idle"
    /\ \E text \in ShortParagraphs : paragraphToSound(text)
    /\ UNCHANGED otherThanParse

NextExtract == ParagraphShort \/ Sentence
SpecExtractFair == Init /\ [][NextExtract]_vars /\ WF_vars(Sentence)

CollapseBegin ==
    /\ word_pc = "idle"
    /\ \E token \in Clusters : collapseBegin(token)
    /\ UNCHANGED otherThanWord
CollapseStep == collapseStep /\ UNCHANGED otherThanWord
CollapseEnd == collapseEnd /\ UNCHANGED otherThanWord

NextWord == CollapseBegin \/ CollapseStep \/ CollapseEnd
SpecWord == Init /\ [][NextWord]_vars

EnterPhoneme ==
    /\ heap_stage = "idle"
    /\ \E context \in HeapContexts, ruleset \in Rulesets :
           enterPhoneme(context, ruleset)
    /\ UNCHANGED otherThanHeap
CallNasalizeVowel == callNasalizeVowel /\ UNCHANGED otherThanHeap
CallBridgeWords == callBridgeWords /\ UNCHANGED otherThanHeap
CallShapeContours == callShapeContours /\ UNCHANGED otherThanHeap
CallApplyRules == callApplyRules /\ UNCHANGED otherThanHeap
LeavePhoneme == leavePhoneme /\ UNCHANGED otherThanHeap

ReplayBegin ==
    /\ pc = "idle"
    /\ \E in \in ReplayInputs : replayBegin(in[1], in[2], in[3])
    /\ UNCHANGED otherThanReplay
ReplayTick ==
    /\ \E step \in NoiseSteps : replayTick(step)
    /\ UNCHANGED otherThanReplay

NextReplay == ReplayBegin \/ ReplayTick
SpecReplay == Init /\ [][NextReplay]_vars

AddSamples ==
    /\ \E samples \in SampleChoices : addSamples(samples)
    /\ UNCHANGED otherThanWave
Close == close /\ UNCHANGED otherThanWave

NextWave == AddSamples \/ Close
SpecWave == Init /\ [][NextWave]_vars

RenderParagraph ==
    /\ render_pc = "idle"
    /\ \E text \in RenderParagraphs : renderParagraph(text)
    /\ UNCHANGED <<otherThanRender, waveVars>>
RenderExtract == renderExtract /\ UNCHANGED <<otherThanRender, waveVars>>
RenderSilence == renderSilence /\ UNCHANGED <<otherThanRender, waveVars>>
RenderStep ==
    /\ \E step \in NoiseSteps : renderStep(step)
    /\ UNCHANGED <<otherThanRender, waveVars>>
RenderReturn == renderReturn /\ UNCHANGED <<otherThanRender, waveVars>>
RenderWrite == renderWrite /\ UNCHANGED otherThanRender
RenderClose == renderClose /\ UNCHANGED otherThanRender

NextRender ==
    \/ RenderParagraph
    \/ RenderExtract
    \/ RenderSilence
    \/ RenderStep
    \/ RenderReturn
    \/ RenderWrite
    \/ RenderClose
SpecRender == Init /\ [][NextRender]_vars

CallLiquidateVowels ==
    /\ rule_called = "none"
    /\ \E args \in RuleCalls : callRule("_liquidateVowels", args, _liquidateVowels(args))
    /\ UNCHANGED otherThanLanguage
CallInflectQuestionPitch ==
    /\ rule_called = "none"
    /\ \E args \in RuleCalls : callRule("_inflectQuestionPitch", args, _inflectQuestionPitch(args))
    /\ UNCHANGED otherThanLanguage
CallAmplifyContent ==
    /\ rule_called = "none"
    /\ \E args \in RuleCalls : callRule("_amplifyContent", args, _amplifyContent(args))
    /\ UNCHANGED otherThanLanguage
CallEmphasizeSpeech ==
    /\ rule_called = "none"
    /\ \E args \in RuleCalls : callRule("_emphasizeSpeech", args, _emphasizeSpeech(args))
    /\ UNCHANGED otherThanLanguage
CallQuoteSpeech ==
    /\ rule_called = "none"
    /\ \E args \in RuleCalls : callRule("_quoteSpeech", args, _quoteSpeech(args))
    /\ UNCHANGED otherThanLanguage
CallDegradePitch ==
    /\ rule_called = "none"
    /\ \E args \in RuleCalls : callRule("_degradePitch", args, _degradePitch(args))
    /\ UNCHANGED otherThanLanguage
CallLengthenTerminal ==
    /\ rule_called = "none"
    /\ \E args \in RuleCalls : callRule("_lengthenTerminal", args, _lengthenTerminal(args))
    /\ UNCHANGED otherThanLanguage
CallShortenDipthong ==
    /\ rule_called = "none"
    /\ \E args \in RuleCalls : callRule("_shortenDipthong", args, _shortenDipthong(args))
    /\ UNCHANGED otherThanLanguage
CallExclaim ==
    /\ rule_called = "none"
    /\ \E args \in RuleCalls : callRule("_exclaim", args, _exclaim(args))
    /\ UNCHANGED otherThanLanguage
RuleReturn == ruleReturn /\ UNCHANGED otherThanLanguage

NextLanguage ==
    \/ CallLiquidateVowels
    \/ CallInflectQuestionPitch
    \/ CallAmplifyContent
    \/ CallEmphasizeSpeech
    \/ CallQuoteSpeech
    \/ CallDegradePitch
    \/ CallLengthenTerminal
    \/ CallShortenDipthong
    \/ CallExclaim
    \/ RuleReturn
SpecLanguage == Init /\ [][NextLanguage]_vars

NextHeap ==
    \/ EnterPhoneme
    \/ CallNasalizeVowel
    \/ CallBridgeWords
    \/ CallShapeContours
    \/ CallApplyRules
    \/ LeavePhoneme
SpecHeap == Init /\ [][NextHeap]_vars

----------------------------------------------------------------------------
(* Claims about the synthesizer, checked under SpecSynth *)

AfterSilence == last_call.op = "generateSilence" /\ outcome = "returned"
AfterSynthesize ==
    pc = "idle" /\ last_call.op = "synthesize" /\ outcome = "returned"
\* the period P and the target T of the last synthesize call, from its arguments
LastP == (80 * last_call.f0_multiplier) \div MulDen
LastT == (last_call.parameters[33] * 10) \div DurDen

\* C1: generateSilence(ms) returns exactly ms x 10 samples, all of them 0, and
\* leaves the noise accumulator at 0 whatever it was before the call.
C1_SilenceZerosAndReset ==
    AfterSilence =>
        /\ Len(returned) * DurDen = last_call.milliseconds * 10
        /\ \A i \in DOMAIN returned : returned[i] = 0
        /\ noise = 0

\* generateSilence(500) was called with a non-zero accumulator and returned
\* 5000 samples
C1_Witness ==
    /\ AfterSilence
    /\ last_call.milliseconds = 500 * DurDen
    /\ Len(returned) = 5000
    /\ noise_before # 0
    /\ noise = 0

\* C2: every sample synthesize returns, and every sample it holds while it
\* runs, is an integer of the signed 16-bit range, in turbo mode as well.
C2_SamplesIn16Bit ==
    /\ \A i \in DOMAIN sounds : sounds[i] \in -32768..32767
    /\ last_call.op = "synthesize" =>
           \A i \in DOMAIN returned : returned[i] \in -32768..32767

\* a turbo call returned tiled samples, among them a clipped sample and one
\* that is not
C2_Witness ==
    /\ AfterSynthesize
    /\ last_call.turbo
    /\ Len(returned) > 2 * LastP
    /\ LastP > 0
    /\ \E i \in DOMAIN returned : returned[i] = -32768
    /\ \E i \in DOMAIN returned : returned[i] \notin {-32768, 0, 32767}

\* C3: a synthesize call that returns, for a frame of duration d >= 0 and an
\* f0 multiplier >= 0, returns exactly int(d x 10) samples, turbo or not.
C3_ExactLength ==
    AfterSynthesize => Len(returned) = LastT

\* a turbo call whose target (5) is neither below nor a multiple of the tiled
\* buffer (2 samples doubled to 4)
C3_Witness ==
    /\ AfterSynthesize
    /\ last_call.turbo
    /\ LastP = 2
    /\ LastT = 5
    /\ Len(returned) = 5

\* C4: in turbo mode the sample at every index i >= 2P (from 0) equals the
\* sample at index i mod 2P.
C4_TurboCyclic ==
    (AfterSynthesize /\ last_call.turbo /\ LastP > 0) =>
        \A i \in 0..(Len(returned) - 1) :
            i >= 2 * LastP => returned[i + 1] = returned[(i % (2 * LastP)) + 1]

\* a turbo call returned more than 2P samples, not all of them equal
C4_Witness ==
    /\ AfterSynthesize
    /\ last_call.turbo
    /\ LastP = 2
    /\ Len(returned) > 2 * LastP
    /\ returned[1] # returned[2]

\* One step of a turbo call with a period above 0: the pass ends the call
\* exactly when it brings the kept samples to `periods` pitch periods, or
\* is the last pass of the loop; what the call then returns has the target
\* length, begins with the samples kept before and repeats the kept
\* samples; and no noise value is drawn outside a pass.
TurboStopsAt(periods) ==
    /\ (pc = "loop" /\ turbo /\ f0_hz > 0) =>
           LET real == Len(sounds) + (IF t >= f0_hz THEN 1 ELSE 0)
           IN  /\ pc' = "idle" <=>
                      \/ real = periods * f0_hz
                      \/ t + 1 = samples_target + f0_hz
               /\ pc' = "idle" =>
                      /\ Len(returned') = samples_target
                      /\ \A i \in 1..Len(sounds) :
                             i <= samples_target => returned'[i] = sounds[i]
                      /\ \A i \in 1..samples_target :
                             i > real => returned'[i] = returned'[i - real]
    /\ (pc = "idle" /\ noise' # noise) =>
           (calls' # calls /\ last_call'.op = "generateSilence")

\* C22 as stated: in turbo mode the passes stop once two pitch periods of
\* samples have been kept (2 x P for P = int(80 x f0 multiplier)); these
\* are repeated up to the target count; nothing is computed and no noise
\* value drawn after that.
C22_StopsAfterTwoPeriods == [][TurboStopsAt(2)]_vars

\* C22: in turbo mode the passes stop once one pitch period of samples has
\* been kept (P for P = int(80 x f0 multiplier)); these are repeated up to
\* the target count; nothing is computed and no noise value drawn after
\* that.
C22_StopsAfterOnePeriod == [][TurboStopsAt(1)]_vars

\* a turbo call with a period of 2 has stopped its passes early: 3 samples
\* returned out of 2 kept, with 4 noise values drawn
C22_Witness ==
    /\ AfterSynthesize
    /\ last_call.turbo
    /\ LastP = 2
    /\ LastT = 3
    /\ returned[3] = returned[1]
    /\ returned[1] # returned[2]
    /\ calls = 1

\* the pass about to be made emits a unit impulse (line 130)
Emits == pc = "loop" /\ PulseAt(period_index, f0_hz) = Unit

\* C23: within a synthesize call with pitch period P = int(80 x f0
\* multiplier) the pass t emits a unit impulse exactly when t is a multiple
\* of P: the first pass emits one, successive impulses are P passes apart,
\* every other pass emits zero.
C23_PulseOncePerPeriod ==
    (pc = "loop" /\ f0_hz > 0) => (Emits <=> t % f0_hz = 0)

\* what the counter of lines 130-134 gives: reset to 0 on emission and
\* compared with P before it is incremented, it emits every P + 1 passes
C23_PulseEveryPeriodAndOne ==
    pc = "loop" => (Emits <=> t % (f0_hz + 1) = 0)

\* a call with a period of 2 stands before its second impulse
C23_SecondPulse ==
    /\ pc = "loop"
    /\ f0_hz = 2
    /\ t > 0
    /\ Emits

----------------------------------------------------------------------------
(* Claims about the parameter pipeline *)

\* the list without its k-th element
Without(list, k) == SubSeq(list, 1, k - 1) \o SubSeq(list, k + 1, Len(list))

DurationSum(list) ==
    LET RECURSIVE Sum(_)
        Sum(k) == IF k = 0 THEN 0 ELSE Duration(list[k]) + Sum(k - 1)
    IN  Sum(Len(list))

AfterNasalization == stage = "nasalized"
AfterLiaisons == stage = "bridged"
AfterContours == stage = "shaped"
AfterLanguageRules == stage = "ruled"

NasalCase ==
    /\ ipa_character \in VOWELS
    /\ ipa_character \notin NASALS
    /\ position < Len(word)
    /\ word[position + 1] \in NASALS

\* C5, the structure: a vowel that is not a nasal and stands before a nasal
\* becomes three frames, the vowel and its 2:1 and 1:2 blends with the nasal,
\* lasting int(50%), int(16.7%) and int(33.3%) of the vowel's duration, with
\* the rest of the list after them; in every other case the list is returned
\* as it was.
C5_SplitInThree ==
    AfterNasalization =>
        LET vowel == stage_in[1]
            v == Values(vowel)
            n == Values(IPA_PARAMETERS(word[position + 1]))
            d == Duration(vowel) \div DurDen
        IN  IF NasalCase
            THEN /\ Len(parameters_list) = 3
                 /\ Values(parameters_list[1]) = v
                 /\ \A i \in 1..32 :
                        /\ parameters_list[2][i] = (2 * v[i] + n[i]) \div 3
                        /\ parameters_list[3][i] = (v[i] + 2 * n[i]) \div 3
                 /\ Duration(parameters_list[1]) = Ms((d * 500) \div 1000)
                 /\ Duration(parameters_list[2]) = Ms((d * 167) \div 1000)
                 /\ Duration(parameters_list[3]) = Ms((d * 333) \div 1000)
            ELSE parameters_list = stage_in

\* C5: when a vowel that is not a nasal stands before a nasal, nasalizeVowel
\* returns three frames in place of the vowel's and the durations of the three
\* add up to the duration the vowel's frame had; in every other case it returns
\* the frames it was given.
C5_DurationsSumToOriginal ==
    AfterNasalization =>
        IF NasalCase
        THEN /\ Len(parameters_list) = 3
             /\ DurationSum(parameters_list) = Duration(stage_in[1])
        ELSE parameters_list = stage_in

\* a vowel of 100 ms has been split before a nasal
C5_Witness ==
    /\ AfterNasalization
    /\ NasalCase
    /\ Duration(stage_in[1]) = Ms(100)
    /\ Len(parameters_list) = 3

LeadCase == position > 1
TailCase ==
    /\ position < Len(word)
    /\ ~(ipa_character \in VOWELS /\ word[position + 1] \in NASALS)

\* C6: shapeContours puts exactly one 15 ms frame before the list of a phoneme
\* that has a preceding phoneme (the 2:1 blend of the lead frame with the
\* preceding phoneme's table fields, or the glottal-stop frame when the phoneme
\* is a stop) and exactly one 15 ms frame after the list of a phoneme that has
\* a following phoneme (the 2:1 blend of the tail frame with the following
\* phoneme's fields, or the 'h' frame when that phoneme is a stop), none after
\* a vowel directly followed by a nasal and none on a side without neighbour;
\* the frames between them keep their fields.
C6_TransitionFrames ==
    AfterContours =>
        LET lead == IF LeadCase THEN 1 ELSE 0
            tail == IF TailCase THEN 1 ELSE 0
            out == parameters_list
        IN  /\ Len(out) = Len(stage_in) + lead + tail
            /\ \A k \in 1..Len(stage_in) :
                   Values(out[k + lead]) = Values(stage_in[k])
            /\ LeadCase =>
                   /\ Duration(out[1]) = Ms(15)
                   /\ IF ipa_character \in STOPS
                      THEN Values(out[1]) = Values(IPA_PARAMETERS("Q"))
                      ELSE \A i \in 1..32 :
                               out[1][i] =
                                   (2 * stage_in[1][i]
                                    + IPA_PARAMETERS(word[position - 1])[i]) \div 3
            /\ TailCase =>
                   /\ Duration(Last(out)) = Ms(15)
                   /\ IF word[position + 1] \in STOPS
                      THEN Values(Last(out)) = Values(IPA_PARAMETERS("h"))
                      ELSE \A i \in 1..32 :
                               Last(out)[i] =
                                   (2 * Last(stage_in)[i]
                                    + IPA_PARAMETERS(word[position + 1])[i]) \div 3

\* a consonant between a vowel and a stop has got a blended frame before it and
\* the 'h' frame after it
C6_Witness ==
    /\ AfterContours
    /\ LeadCase
    /\ TailCase
    /\ ipa_character \notin STOPS
    /\ word[position + 1] \in STOPS
    /\ Len(parameters_list) = Len(stage_in) + 2
    /\ Values(parameters_list[1]) # Values(stage_in[1])

BridgeCase ==
    /\ ipa_character \in VOWELS
    /\ position = 1
    /\ previous_words # <<>>

\* C7: bridgeWords adds exactly one frame, of 50 ms, to the list of a vowel
\* that is the first phoneme of its word when the sentence has a previous
\* word: a frame with the 'h' fields when the previous word ends in a vowel,
\* the field-wise average of the first frame and the table entry of the
\* previous word's last phoneme otherwise; it adds no frame for a phoneme that
\* is not a vowel, is not word-initial or stands in the first word.
C7_OneLiaisonFrame ==
    AfterLiaisons =>
        IF BridgeCase
        THEN LET character == Last(Last(previous_words))
             IN  /\ Len(parameters_list) = Len(stage_in) + 1
                 /\ \E k \in 1..Len(parameters_list) :
                        /\ Without(parameters_list, k) = stage_in
                        /\ Duration(parameters_list[k]) = Ms(50)
                        /\ IF character \in VOWELS
                           THEN Values(parameters_list[k]) =
                                    Values(IPA_PARAMETERS("h"))
                           ELSE \A i \in 1..32 :
                                    parameters_list[k][i] =
                                        (stage_in[1][i]
                                         + IPA_PARAMETERS(character)[i]) \div 2
        ELSE parameters_list = stage_in

\* a word-initial vowel has got the 'h' frame after a word ending in a vowel
C7_Witness ==
    /\ AfterLiaisons
    /\ BridgeCase
    /\ Last(Last(previous_words)) \in VOWELS
    /\ Len(parameters_list) = Len(stage_in) + 1

\* a word-initial vowel has got the averaged frame after a word ending in a
\* consonant
C7_WitnessConsonant ==
    /\ AfterLiaisons
    /\ BridgeCase
    /\ Last(Last(previous_words)) \notin VOWELS
    /\ Len(parameters_list) = Len(stage_in) + 1

\* C8: the 50 ms liaison frame is the first element of the list bridgeWords
\* returns, the frames of the phoneme following it, both after a word ending
\* in a vowel and after a word ending in a consonant.
C8_LiaisonFrameFirst ==
    (AfterLiaisons /\ BridgeCase) =>
        /\ Len(parameters_list) = Len(stage_in) + 1
        /\ Duration(parameters_list[1]) = Ms(50)
        /\ Tail(parameters_list) = stage_in

\* C8, after a consonant: the averaged frame is the first element of the list.
C8_AveragedFrameFirst ==
    (AfterLiaisons /\ BridgeCase /\ Last(Last(previous_words)) \notin VOWELS) =>
        /\ Len(parameters_list) = Len(stage_in) + 1
        /\ Duration(parameters_list[1]) = Ms(50)
        /\ Tail(parameters_list) = stage_in

\* C8, after a vowel: the 'h' frame is the last element of the list, behind
\* the frames of the phoneme.
C8_GlottalFrameLast ==
    (AfterLiaisons /\ BridgeCase /\ Last(Last(previous_words)) \in VOWELS) =>
        /\ Len(parameters_list) = Len(stage_in) + 1
        /\ Last(parameters_list) = Values(IPA_PARAMETERS("h")) \o <<Ms(50)>>
        /\ SubSeq(parameters_list, 1, Len(stage_in)) = stage_in

\* C9: with the ruleset of no rules applyRules returns the frames it was
\* given, element by element in the same order, and as many multipliers, each
\* of them 1.0.
C9_NullRulesetNoOp ==
    (AfterLanguageRules /\ RULE_FUNCTIONS(language) = <<>>) =>
        /\ parameters_list = stage_in
        /\ Len(f0_multipliers) = Len(stage_in)
        /\ \A k \in 1..Len(f0_multipliers) : f0_multipliers[k] = MulDen

\* the rules have passed over a list of several different frames
C9_Witness ==
    /\ AfterLanguageRules
    /\ language = "null"
    /\ Len(stage_in) >= 4
    /\ stage_in[1] # stage_in[2]
    /\ Len(f0_multipliers) = Len(stage_in)
----------------------------------------------------------------------------
(* Claims about the parser *)

\* The token grammar, stated on its own: a token is an opening part, a phoneme
\* cluster and a closing part.
OpenMarkers == {<<>>, <<"*">>, <<"\"">>, <<"*", "\"">>, <<"\"", "*">>}
Openings == {m \o c : m \in OpenMarkers, c \in {<<>>, <<"'">>}}
Punctuations == {<<>>, <<".">>, <<"?">>, <<"!">>, <<"?", "!">>, <<"!", "?">>}
Closings == {m \o e : m \in OpenMarkers, e \in Punctuations}

IsCluster(s) ==
    /\ s # <<>>
    /\ s[1] \in IPA_CHARACTERS
    /\ \A k \in 2..Len(s) :
           \/ s[k] \in IPA_CHARACTERS \cup Extensions
           \/ k = Len(s) /\ s[k] = ","

InGrammar(token) ==
    \E i \in 0..Len(token), j \in 0..Len(token) :
        /\ i <= j
        /\ SubSeq(token, 1, i) \in Openings
        /\ IsCluster(SubSeq(token, i + 1, j))
        /\ SubSeq(token, j + 1, Len(token)) \in Closings

EndsSentence(token) == Has(token, ".") \/ Has(token, "?") \/ Has(token, "!")

\* the tokens of the paragraph that have been read
Consumed == Len(paragraph) - Len(tokens)

\* the place of the first token of the paragraph outside the grammar
FirstOutside ==
    CHOOSE k \in 1..Len(paragraph) :
        /\ ~InGrammar(paragraph[k])
        /\ \A j \in 1..(k - 1) : InGrammar(paragraph[j])

\* the sentence ends before the k-th token of the paragraph
EndsBefore(k) == {j \in 1..(k - 1) : EndsSentence(paragraph[j])}

\* the last sentence end before the k-th token, 0 where there is none
LastEndBefore(k) ==
    IF EndsBefore(k) = {} THEN 0
    ELSE CHOOSE j \in EndsBefore(k) : \A i \in EndsBefore(k) : i <= j

\* C10: _extractSentence raises its error for a paragraph exactly when it
\* reaches a token outside the token grammar, the error then names the 1-based
\* place of that token among the words of its sentence and the 1-based place of
\* that sentence in the paragraph, and no token inside the grammar raises it:
\* a paragraph is analysed to its end only if all its tokens are inside.
C10_MalformedTokenRaises ==
    /\ parse_pc = "raised" =>
           /\ \E k \in 1..Len(paragraph) : ~InGrammar(paragraph[k])
           /\ \A k \in 1..Consumed : InGrammar(paragraph[k])
           /\ FirstOutside > Consumed
           /\ error.word = FirstOutside - LastEndBefore(FirstOutside)
           /\ error.sentence = Cardinality(EndsBefore(FirstOutside)) + 1
    /\ parse_pc \in {"extracting", "analyzed"} =>
           \A k \in 1..Consumed : InGrammar(paragraph[k])
    /\ parse_pc = "analyzed" => tokens = <<>>

\* the second word of the second sentence is a bare full stop
C10_Witness ==
    /\ parse_pc = "raised"
    /\ Len(paragraph) = 3
    /\ paragraph[3] = <<".">>
    /\ error = [word |-> 2, sentence |-> 2]

\* a token that begins with an extension raises as the first word
C10_WitnessExtension ==
    /\ parse_pc = "raised"
    /\ paragraph[1] = <<"<", "a">>
    /\ error = [word |-> 1, sentence |-> 1]

\* The parts of a token around its phoneme cluster, read off the token: the
\* marks before the first phoneme and the marks behind the cluster.
OpeningMarks == {"*", "\"", "'"}
ClosingMarks == {"*", "\"", ".", "?", "!"}

OpeningOf(token) ==
    LET n == CHOOSE k \in 0..Len(token) :
                 /\ \A i \in 1..k : token[i] \in OpeningMarks
                 /\ k < Len(token) => token[k + 1] \notin OpeningMarks
    IN  SubSeq(token, 1, n)

ClosingOf(token) ==
    LET n == CHOOSE k \in 0..Len(token) :
                 /\ \A i \in (k + 1)..Len(token) : token[i] \in ClosingMarks
                 /\ k > 0 => token[k] \notin ClosingMarks
    IN  SubSeq(token, n + 1, Len(token))

ClusterOf(token) ==
    SubSeq(token, Len(OpeningOf(token)) + 1, Len(token) - Len(ClosingOf(token)))

\* the words of the sentences before the n-th
WordsBefore(n) ==
    LET RECURSIVE Sum(_)
        Sum(k) == IF k = 0 THEN 0 ELSE Len(sentences[k][1]) + Sum(k - 1)
    IN  Sum(n - 1)

\* the places in the paragraph of the first and last token of the n-th sentence
FirstToken(n) == WordsBefore(n) + 1
LastToken(n) == WordsBefore(n + 1)

InMarkup(flag, markup) == \E k \in 1..Len(markup) : markup[k] = flag

\* C11: each extracted sentence takes the tokens from where the one before
\* stopped up to and including the first that bears terminal punctuation (or
\* the last of the paragraph), its words are their clusters in order, the
\* tokens behind it stay in the queue in their order, and its question flag is
\* set iff that token's punctuation holds '?' and its exclamation flag iff it
\* holds '!': both for '?!' and '!?', none for '.'.
C11_StopsAtFirstTerminal ==
    parse_pc # "idle" =>
        /\ tokens = SubSeq(paragraph, WordsBefore(Len(sentences) + 1) + 1,
                           Len(paragraph))
        /\ \A n \in 1..Len(sentences) :
               LET words == sentences[n][1]
                   markup == sentences[n][2]
                   last == paragraph[LastToken(n)]
               IN  /\ Len(words) >= 1
                   /\ \A k \in 1..Len(words) :
                          words[k][1] = ClusterOf(paragraph[FirstToken(n) + k - 1])
                   /\ \A k \in FirstToken(n)..(LastToken(n) - 1) :
                          ~EndsSentence(paragraph[k])
                   /\ EndsSentence(last) \/ LastToken(n) = Len(paragraph)
                   /\ InMarkup(SENTENCE_QUESTION, markup) <=> Has(last, "?")
                   /\ InMarkup(SENTENCE_EXCLAMATION, markup) <=> Has(last, "!")

\* [w1, w2?] has given one sentence of two words, a question and no exclamation
C11_Witness ==
    /\ parse_pc = "analyzed"
    /\ paragraph = <<<<"a">>, <<"t", "?">>>>
    /\ Len(sentences) = 1
    /\ Len(sentences[1][1]) = 2
    /\ sentences[1][2] = <<SENTENCE_QUESTION>>

\* a sentence ended by '!?' has both flags and has left the token behind it
C11_WitnessBoth ==
    /\ parse_pc = "extracting"
    /\ Len(sentences) = 1
    /\ paragraph[LastToken(1)] = <<"s", "!", "?">>
    /\ InMarkup(SENTENCE_QUESTION, sentences[1][2])
    /\ InMarkup(SENTENCE_EXCLAMATION, sentences[1][2])
    /\ tokens = <<paragraph[Len(paragraph)]>>

\* the mark is open at the k-th token of the paragraph, counted from the first
\* token of its sentence
OpenAt(mark, first, k) ==
    \E j \in first..k :
        /\ Has(OpeningOf(paragraph[j]), mark)
        /\ \A i \in j..(k - 1) : ~Has(ClosingOf(paragraph[i]), mark)

\* C12: a word is flagged quoted (emphasized) exactly when an opening quote
\* (emphasis) marker stands before its own cluster or stood before the cluster
\* of an earlier token of the sentence with no closing marker on any token from
\* that one up to the word; so the word with the closing marker is still
\* flagged and the next is not, unless it opens again.  A word is flagged as
\* content exactly when its own token carries the apostrophe.
C12_MarkupPersists ==
    parse_pc # "idle" =>
        \A n \in 1..Len(sentences) :
            \A k \in 1..Len(sentences[n][1]) :
                LET at == FirstToken(n) + k - 1
                    word_markup == sentences[n][1][k][2]
                IN  /\ InMarkup(WORD_QUOTED, word_markup)
                           <=> OpenAt("\"", FirstToken(n), at)
                    /\ InMarkup(WORD_EMPHASIZED, word_markup)
                           <=> OpenAt("*", FirstToken(n), at)
                    /\ InMarkup(WORD_CONTENT, word_markup)
                           <=> Has(OpeningOf(paragraph[at]), "'")

\* quote and emphasis opened on the first word, the quote closed on the second:
\* the second word is still quoted, the third is emphasized only
C12_Witness ==
    /\ parse_pc = "analyzed"
    /\ paragraph = <<<<"\"", "*", "a", "+", "n">>, <<"n", "\"">>, <<"a">>>>
    /\ Len(sentences) = 1
    /\ sentences[1][1][1][2] = <<WORD_QUOTED, WORD_EMPHASIZED>>
    /\ sentences[1][1][2][2] = <<WORD_QUOTED, WORD_EMPHASIZED>>
    /\ sentences[1][1][3][2] = <<WORD_EMPHASIZED>>

\* C13: every sentence the parser has produced ends at a token bearing
\* terminal punctuation: its last word came from such a token.
C13_EndsAtTerminal ==
    parse_pc # "idle" =>
        \A n \in 1..Len(sentences) : EndsSentence(paragraph[LastToken(n)])

\* C13, amended: every sentence the parser has produced ends at a token
\* bearing terminal punctuation, but for the last sentence of a paragraph,
\* which ends with the last token of the paragraph when none of its tokens
\* bears terminal punctuation.
C13_EndsAtTerminalOrStreamEnd ==
    parse_pc # "idle" =>
        \A n \in 1..Len(sentences) :
            \/ EndsSentence(paragraph[LastToken(n)])
            \/ /\ n = Len(sentences)
               /\ LastToken(n) = Len(paragraph)
               /\ tokens = <<>>

\* a sentence ended by punctuation, then a last one ended by the end of input
C13_Witness ==
    /\ parse_pc = "analyzed"
    /\ Len(sentences) = 2
    /\ EndsSentence(paragraph[LastToken(1)])
    /\ ~EndsSentence(paragraph[LastToken(2)])

----------------------------------------------------------------------------
(* Claims about the phonemes of a word *)

RECURSIVE Power(_, _)
Power(b, n) == IF n = 0 THEN 1 ELSE b * Power(b, n - 1)

\* the places of the symbols of the reduced token that are no modifiers
Places == {k \in 1..Len(ipa_tokens) : ipa_tokens[k] \notin Extensions}

\* the j-th of them
Place(j) == CHOOSE p \in Places : Cardinality({q \in Places : q <= p}) = j

\* how many times the modifier stands behind place p, before the next symbol
\* that is no modifier
Following(modifier, p) ==
    Cardinality({k \in (p + 1)..Len(ipa_tokens) :
                    /\ ipa_tokens[k] = modifier
                    /\ \A q \in (p + 1)..k : q \notin Places})

\* a fraction in lowest terms
RECURSIVE Gcd(_, _)
Gcd(a, b) == IF b = 0 THEN a ELSE Gcd(b, a % b)
Lowest(n, d) == <<n \div Gcd(n, d), d \div Gcd(n, d)>>

\* the fraction x equals n / d
Equals(x, n, d) == Lowest(x[1], x[2]) = Lowest(n, d)

\* C14: the phonemes of a word are the symbols of the reduced token that are
\* no modifiers, as many and in their order; the duration multiplier of each
\* is 1.5^k * 0.5^m and its pitch multiplier 0.95^p * 1.05^q for the k '>',
\* m '<', p '+' and q '-' that stand directly behind it, before the next such
\* symbol: 1.0 for both when none stands there.
C14_ModifiersApplyToPreceding ==
    word_pc = "collapsed" =>
        /\ Len(phonemes) = Cardinality(Places)
        /\ \A j \in 1..Len(phonemes) :
               LET at == Place(j)
                   k == Following(">", at)
                   m == Following("<", at)
                   up == Following("+", at)
                   down == Following("-", at)
               IN  /\ phonemes[j][1] = ipa_tokens[at]
                   /\ Equals(phonemes[j][2], Power(3, k), Power(2, k + m))
                   /\ Equals(phonemes[j][3], Power(19, up) * Power(21, down),
                             Power(20, up + down))

\* 'a>>n' has given a at 2.25 times its duration and n with both multipliers 1
C14_Witness ==
    /\ word_pc = "collapsed"
    /\ ipa_tokens = <<"a", ">", ">", "n">>
    /\ Len(phonemes) = 2
    /\ Equals(phonemes[1][2], 9, 4)
    /\ phonemes[2] = <<"n", One, One>>

----------------------------------------------------------------------------
(* Claims about the lists the stages are handed, checked under SpecHeap *)

AfterCall == heap_stage \in {"nasalized", "bridged", "shaped", "ruled"}

\* the parameter-sets of the list that was handed over
HandedSets == {heap_before[handed][k] : k \in 1..Len(heap_before[handed])}

\* C15: nasalizeVowel, bridgeWords, shapeContours and applyRules leave the
\* parameters list they are handed, every parameter-set in it and every
\* entry of the phoneme table as they were, also when a rule function
\* changes the parameter-set it is handed.
C15_HandedListUnaltered ==
    /\ \A a \in 1..Len(Table) : heap[a] = Table[a]
    /\ AfterCall =>
           /\ heap[handed] = heap_before[handed]
           /\ \A a \in HandedSets : heap[a] = heap_before[a]

\* applyRules has run a rule function that changed the parameter-set it was
\* handed, on a list the universal rules had extended
C15_Witness ==
    /\ heap_stage = "ruled"
    /\ \E j \in 1..Len(behaviours) : behaviours[j].boost # 0
    /\ Len(heap[handed]) > 1
    /\ \E k \in 1..Len(heap[held]) :
           \A a \in HandedSets : heap[heap[held][k]] # heap[a]

\* the sum of the boosts of the first j rule functions
RECURSIVE BoostOf(_)
BoostOf(j) == IF j = 0 THEN 0 ELSE BoostOf(j - 1) + behaviours[j].boost

\* the parameter-sets the j-th rule function returns for a current
\* parameter-set: those to put before it, those to put after it
ReturnedBefore(frame, j) ==
    [k \in 1..Len(behaviours[j].before) |->
        Values(Boosted(frame, BoostOf(j))) \o <<behaviours[j].before[k]>>]
ReturnedAfter(frame, j) ==
    [k \in 1..Len(behaviours[j].after) |->
        Values(Boosted(frame, BoostOf(j))) \o <<behaviours[j].after[k]>>]

\* what the first j rule functions have put before the current
\* parameter-set, a later one's nearer to it
RECURSIVE PutBefore(_, _)
PutBefore(frame, j) ==
    IF j = 0 THEN <<>> ELSE PutBefore(frame, j - 1) \o ReturnedBefore(frame, j)

\* what they have put after it: a later one's farther from it, or nearer
RECURSIVE PutAfter(_, _, _)
PutAfter(frame, j, farther) ==
    IF j = 0 THEN <<>>
    ELSE IF farther
         THEN PutAfter(frame, j - 1, farther) \o ReturnedAfter(frame, j)
         ELSE ReturnedAfter(frame, j) \o PutAfter(frame, j - 1, farther)

\* the parameters list applyRules answers with, from the i-th handed
\* parameter-set on
RECURSIVE Accumulated(_, _, _)
Accumulated(list, i, farther) ==
    IF i > Len(list) THEN <<>>
    ELSE PutBefore(list[i], Len(behaviours))
         \o <<Boosted(list[i], BoostOf(Len(behaviours)))>>
         \o PutAfter(list[i], Len(behaviours), farther)
         \o Accumulated(list, i + 1, farther)

\* C20 as stated: around each current parameter-set, what a later rule
\* function puts before it lies nearer to it than what an earlier one put
\* there, and what a later rule function puts after it lies farther.
C20_LaterAppendsFarther ==
    heap_stage = "ruled" =>
        Deref(heap, held) = Accumulated(Deref(heap_before, handed), 1, TRUE)

\* C20: around each current parameter-set, what a later rule function puts
\* before it lies nearer to it than what an earlier one put there, and what
\* a later rule function puts after it lies nearer to it, too.
C20_LaterAppendsNearer ==
    heap_stage = "ruled" =>
        Deref(heap, held) = Accumulated(Deref(heap_before, handed), 1, FALSE)

\* two different rule functions have each put parameter-sets before and
\* after the current one
C20_Witness ==
    /\ heap_stage = "ruled"
    /\ Len(behaviours) = 2
    /\ behaviours[1] # behaviours[2]
    /\ \A j \in 1..2 : behaviours[j].before # <<>> /\ behaviours[j].after # <<>>

\* the multiplier the j-th rule function returns for a parameter-set with
\* `remaining` parameter-sets of the phoneme after it
MultiplierOf(j, remaining) ==
    IF remaining = 0 THEN behaviours[j].last ELSE behaviours[j].multiplier

\* the product of the multipliers of the first j rule functions, in ruleset
\* order, in thousandths
RECURSIVE Product(_, _)
Product(j, remaining) ==
    IF j = 0 THEN MulDen
    ELSE (Product(j - 1, remaining) * MultiplierOf(j, remaining)) \div MulDen

\* how many parameter-sets the first j rule functions put before the
\* current one, and after it
RECURSIVE InsertedBefore(_)
InsertedBefore(j) ==
    IF j = 0 THEN 0 ELSE InsertedBefore(j - 1) + Len(behaviours[j].before)
RECURSIVE InsertedAfter(_)
InsertedAfter(j) ==
    IF j = 0 THEN 0 ELSE InsertedAfter(j - 1) + Len(behaviours[j].after)

\* the parameter-sets answered for one handed parameter-set, and which
\* handed parameter-set the k-th answered one belongs to
GroupSize == InsertedBefore(Len(behaviours)) + 1 + InsertedAfter(Len(behaviours))
GroupOf(k) == (k - 1) \div GroupSize + 1

\* C21: applyRules answers with as many f0 multipliers as parameter-sets;
\* the multiplier of a handed parameter-set, and of every parameter-set the
\* rule functions put before or after it, is the product of the
\* multipliers every rule function of the ruleset returned for it, in
\* ruleset order; the handed parameter-sets come back in their order.
C21_MultiplierIsProduct ==
    heap_stage = "ruled" =>
        LET list == Deref(heap_before, handed)
            answered == Deref(heap, held)
            rules == Len(behaviours)
        IN  /\ Len(heap_multipliers) = Len(answered)
            /\ Len(answered) = Len(list) * GroupSize
            /\ \A k \in 1..Len(heap_multipliers) :
                   heap_multipliers[k] = Product(rules, Len(list) - GroupOf(k))
            /\ \A i \in 1..Len(list) :
                   answered[(i - 1) * GroupSize + InsertedBefore(rules) + 1]
                       = Boosted(list[i], BoostOf(rules))

\* two rule functions with multipliers other than 1 have run on a list of
\* several parameter-sets, have put parameter-sets around each, and the
\* last handed parameter-set got another multiplier than the first
C21_Witness ==
    /\ heap_stage = "ruled"
    /\ Len(behaviours) = 2
    /\ behaviours[1].multiplier # MulDen
    /\ behaviours[2].last # MulDen
    /\ behaviours[1].multiplier # behaviours[2].last
    /\ Len(heap_before[handed]) > 1
    /\ GroupSize > 1
    /\ heap_multipliers[1] # heap_multipliers[Len(heap_multipliers)]
    /\ heap_multipliers[1] # MulDen

----------------------------------------------------------------------------
(* Claims about the synthesizer's memory between calls, checked under      *)
(* SpecSynth                                                               *)

\* the step is a call of generateSilence, the entry of a synthesize call
SilenceStep == calls' # calls /\ last_call'.op = "generateSilence"
SynthesizeEntry == calls' # calls /\ last_call'.op = "synthesize"

\* C16: a synthesize call starts from the accumulator the call before left
\* and does not reset it; a draw moves the accumulator by at most 0.00001
\* (one unit); a step that is no generateSilence moves it by no more than
\* that, and generateSilence sets it to 0.
C16_NoiseShared ==
    [][/\ SynthesizeEntry => noise' = noise
       /\ ~SilenceStep => noise' - noise \in -1..1
       /\ SilenceStep => noise' = 0]_vars

\* a second synthesize call has started on what the first one left in the
\* accumulator, and has drawn from there
C16_Witness ==
    /\ calls = 2
    /\ last_call.op = "synthesize"
    /\ pc = "loop"
    /\ t = 1
    /\ noise_before \notin -1..1
    /\ noise - noise_before \in {-1, 1}

\* C17: when a synthesize call is about to compute its first sample, the
\* echo queues of all 16 resonators are at zero; and two calls given the
\* same parameters, f0 multiplier and turbo flag that start from the same
\* accumulator and draw the same increments return the same samples,
\* whatever was synthesized before them.
C17_ResetAndReplay ==
    /\ (pc = "loop" /\ t = 0) => \A r \in Resonators : AtRest(r)
    /\ \A i, j \in 1..Len(history) :
           (/\ history[i].call = history[j].call
            /\ history[i].start = history[j].start
            /\ history[i].draws = history[j].draws)
           => history[i].output = history[j].output

\* two such calls have returned samples, the second one entered with echoes
\* of the first in the resonators
C17_Witness ==
    /\ Len(history) >= 2
    /\ \E i, j \in 1..Len(history) :
           /\ i < j
           /\ history[i].call = history[j].call
           /\ history[i].start = history[j].start
           /\ history[i].draws = history[j].draws
           /\ history[i].output # <<>>
           /\ \E k \in 1..Len(history[i].output) : history[i].output[k] # 0
           /\ ~history[i].stale
           /\ history[j].stale

----------------------------------------------------------------------------
(* Claims about the wave file, checked under SpecWave *)

\* C19: however often close() is called, the underlying file is closed
\* exactly once and no call raises; addSamples after close() raises IOError
\* and writes nothing; addSamples before close() does not raise IOError.
C19_CloseIdempotent ==
    /\ wavefile_closes = (IF close_calls > 0 THEN 1 ELSE 0)
    /\ finalized = (close_calls > 0)
    /\ wave_last.op = "close" => wave_last.raised = "none"
    /\ wave_last.op = "addSamples" =>
           /\ wave_last.finalized = (wave_last.raised = "IOError")
           /\ wave_last.finalized => wavefile_frames = wave_last.frames

\* samples were written, close() was called twice, and addSamples was
\* called with samples after that
C19_Witness ==
    /\ close_calls >= 2
    /\ wavefile_frames # <<>>
    /\ wave_last.op = "addSamples"
    /\ wave_last.finalized
    /\ wave_last.raised = "IOError"

----------------------------------------------------------------------------
(* Claims about the rendering of a paragraph, checked under SpecRender *)

\* the token fits the grammar and every phoneme of it has an entry
Renderable(token) ==
    /\ Match(token).matched
    /\ \A k \in 1..Len(token) :
           token[k] \in IPA_CHARACTERS => token[k] \in IPA_DATA_SYMBOLS

\* C18: paragraphToSound returns segments only for a paragraph whose tokens
\* all fit the grammar and whose phonemes all have an entry in the table;
\* otherwise it raises, main is handed no segment and writes no sample of
\* the paragraph; when the cause is a malformed token no call of the
\* synthesizer has been made for the paragraph and the noise accumulator is
\* as it was.
C18_AllOrNothing ==
    /\ render_pc = "writing" =>
           \A k \in 1..Len(paragraph) : Renderable(paragraph[k])
    /\ \A k \in 1..Len(written) : written[k] <= paragraph_count
    /\ failure # "none" =>
           /\ render_pc = "failed"
           /\ paragraph_sounds = <<>>
           /\ \A k \in 1..Len(written) : written[k] # paragraph_count
    /\ parse_pc = "raised" => failure = "ValueError"
    /\ failure = "ValueError" =>
           /\ synthesizer_calls = 0
           /\ noise = noise_at_entry

\* the second paragraph has a malformed token behind a complete sentence;
\* the first one was written and left the accumulator off zero
C18_Witness ==
    /\ failure = "ValueError"
    /\ paragraph_count = 2
    /\ sentences # <<>>
    /\ written # <<>>
    /\ noise # 0

\* a phoneme without entry was met after a sentence had been synthesized
C18_WitnessPhoneme ==
    /\ failure = "KeyError"
    /\ synthesizer_calls > 2
    /\ Len(sentences) = 2

----------------------------------------------------------------------------
(* Claims about the rule functions of english_canadian, checked under      *)
(* SpecLanguage                                                            *)

\* the rule function has nothing to do for the phoneme it is called for
Inapplicable(name, args) ==
    CASE name = "_liquidateVowels" -> args.ipa_character \notin LIQUIDS
      [] name = "_inflectQuestionPitch" -> ~args.is_question
      [] name = "_amplifyContent" -> ~args.is_content
      [] name = "_emphasizeSpeech" -> ~args.is_emphasized
      [] name = "_quoteSpeech" -> ~args.is_quoted
      [] name = "_degradePitch" -> args.is_question
      [] name = "_lengthenTerminal" -> args.remaining_words # 0
      [] name = "_shortenDipthong" -> args.preceding_phonemes = <<>>
      [] name = "_exclaim" -> ~args.is_exclamation

\* the answer has an f0 multiplier of 1.0 and no parameter-sets to insert
Neutral(answer) ==
    /\ answer.multiplier = MulDen
    /\ answer.preceding_params = <<>>
    /\ answer.following_params = <<>>

\* C24: every rule function of english_canadian answers with an f0
\* multiplier of 1.0 and no parameter-sets to insert when it is called for
\* a phoneme it has nothing to do for: _exclaim outside an exclamation,
\* _quoteSpeech for an unquoted word, _degradePitch in a question.
C24_InapplicableIsNeutral ==
    (/\ \E k \in 1..Len(ENGLISH_CANADIAN) : rule_called = ENGLISH_CANADIAN[k]
     /\ Inapplicable(rule_called, rule_arguments)) =>
        Neutral(rule_answer)

\* the same of every rule function but _exclaim
C24_NeutralButExclaim ==
    (/\ rule_called \notin {"none", "_exclaim"}
     /\ Inapplicable(rule_called, rule_arguments)) =>
        Neutral(rule_answer)

\* _exclaim, called outside an exclamation, has left the parameter-set as
\* it was and answered with 0.975
C24_ExclaimOutsideExclamation ==
    /\ rule_called = "_exclaim"
    /\ ~rule_arguments.is_exclamation
    /\ rule_answer.parameters = rule_arguments.parameters
    /\ rule_answer.multiplier = 975

----------------------------------------------------------------------------
(* Claims about the sounds of a paragraph, checked under SpecRender *)

\* the sounds of the phonemes of a word from its k-th symbol on, in the
\* order of the symbols
RECURSIVE PhonemeSounds(_, _)
PhonemeSounds(token, k) ==
    IF k > Len(token) THEN <<>>
    ELSE (IF token[k] \in IPA_SYMBOLS THEN SoundOf(token[k]) ELSE <<>>)
         \o PhonemeSounds(token, k + 1)

\* the sounds of a word: its phonemes, and 2500 zeros behind a comma
WordSounds(token) ==
    PhonemeSounds(token, 1)
    \o (IF token[Len(token)] = "," THEN [k \in 1..2500 |-> 0] ELSE <<>>)

\* the sounds of the words of a sentence from the j-th on, in their order
RECURSIVE SentenceSoundsFrom(_, _)
SentenceSoundsFrom(words, j) ==
    IF j > Len(words) THEN <<>>
    ELSE WordSounds(words[j][1]) \o SentenceSoundsFrom(words, j + 1)

\* paragraphToSound is about to return
Sounded == render_pc = "sounding" /\ pending = <<>>

\* C25: for a paragraph of n sentences paragraphToSound returns 2n
\* segments: for every sentence, in order, its sounds and then 5000 zeros;
\* the sounds of a sentence are those of its words in order, the sounds of
\* a word those of its phonemes in order, with 2500 zeros behind a word
\* that ends in a comma.
C25_TwoSegmentsPerSentence ==
    Sounded =>
        /\ Len(paragraph_sounds) = 2 * Len(sentences)
        /\ \A i \in 1..Len(sentences) :
               /\ paragraph_sounds[2 * i - 1]
                      = SentenceSoundsFrom(sentences[i][1], 1)
               /\ paragraph_sounds[2 * i] = [k \in 1..5000 |-> 0]

\* a paragraph of two sentences, the first of two words of which one ends
\* in a comma, has been sounded
C25_Witness ==
    /\ Sounded
    /\ Len(sentences) = 2
    /\ Len(sentences[1][1]) = 2
    /\ sentences[1][1][1][1] = <<"t", "a", ",">>
    /\ Len(paragraph_sounds[1]) = 2504
    /\ paragraph_sounds[3] = SoundOf("n")

----------------------------------------------------------------------------
(* Claims about the sentence extraction as a whole, checked under          *)
(* SpecExtractFair                                                         *)

\* _sentenceToSound, line 104: the arguments i + 1 and len(words) - i - 1
\* of _wordToSound for the word at index i, counted from 0
WordPosition(i) == i + 1
RemainingWords(words, i) == Len(words) - i - 1

\* a call of _extractSentence raises or takes at least one token off the
\* queue
ExtractionAdvances ==
    parse_pc = "extracting" =>
        \/ parse_pc' = "raised"
        \/ Len(tokens') < Len(tokens)

\* every sentence has a word; the words of the sentences, in order, are
\* the clusters of the tokens read, one for one; the tokens not read are
\* the rest of the paragraph; the position of a word and the words behind
\* it add up to the words of its sentence
NothingLost ==
    parse_pc # "idle" =>
        /\ Consumed = WordsBefore(Len(sentences) + 1)
        /\ tokens = SubSeq(paragraph, Consumed + 1, Len(paragraph))
        /\ parse_pc = "analyzed" => Consumed = Len(paragraph)
        /\ \A n \in 1..Len(sentences) :
               LET words == sentences[n][1]
               IN  /\ Len(words) >= 1
                   /\ \A i \in 0..(Len(words) - 1) :
                          /\ words[i + 1][1]
                                 = ClusterOf(paragraph[WordsBefore(n) + i + 1])
                          /\ WordPosition(i) + RemainingWords(words, i)
                                 = Len(words)
                          /\ WordPosition(i) + RemainingWords(words, i) >= 1

\* C26: the sentence extraction of paragraphToSound comes to an end for
\* every paragraph, by an error or with no token left; every call of
\* _extractSentence raises or takes at least one token; every sentence has
\* at least one word; the words of the sentences are the tokens read, one
\* for one and in order; word_position + remaining_words is the number of
\* words of the sentence, at least 1.
C26_TerminatesLosingNothing ==
    /\ [][ExtractionAdvances]_vars
    /\ []NothingLost
    /\ (parse_pc = "extracting") ~> (parse_pc \in {"analyzed", "raised"})

\* a paragraph of three tokens has been taken apart into two sentences, of
\* two words and of one
C26_Witness ==
    /\ parse_pc = "analyzed"
    /\ Len(paragraph) = 3
    /\ Len(sentences) = 2
    /\ Len(sentences[1][1]) = 2
    /\ tokens = <<>>

----------------------------------------------------------------------------
(* Claims about the markup at a sentence boundary, checked under SpecParse *)

\* the mark is open when the last token of the n-th sentence has been read
LeftOpen(mark, n) ==
    /\ OpenAt(mark, FirstToken(n), LastToken(n))
    /\ ~Has(ClosingOf(paragraph[LastToken(n)]), mark)

\* the k-th word of the n-th sentence bears the flag
Flagged(flag, n, k) == InMarkup(flag, sentences[n][1][k][2])

\* a token of the n-th sentence up to its k-th bears the opening mark
OpenedWithin(mark, n, k) ==
    \E j \in FirstToken(n)..(FirstToken(n) + k - 1) :
        Has(OpeningOf(paragraph[j]), mark)

\* C27: the first word of a sentence is flagged quoted (emphasized) only if
\* its own token opens with the quote (emphasis) marker; after a sentence
\* that ended with the marker still open, a word is flagged only if a token
\* of its own sentence, up to the word, opens with the marker.
C27_MarkupEndsWithSentence ==
    parse_pc # "idle" =>
        \A n \in 1..Len(sentences) :
            /\ Flagged(WORD_QUOTED, n, 1)
                   => Has(OpeningOf(paragraph[FirstToken(n)]), "\"")
            /\ Flagged(WORD_EMPHASIZED, n, 1)
                   => Has(OpeningOf(paragraph[FirstToken(n)]), "*")
            /\ \A k \in 1..Len(sentences[n][1]) :
                   /\ (n > 1 /\ LeftOpen("\"", n - 1) /\ Flagged(WORD_QUOTED, n, k))
                          => OpenedWithin("\"", n, k)
                   /\ (n > 1 /\ LeftOpen("*", n - 1)
                          /\ Flagged(WORD_EMPHASIZED, n, k))
                          => OpenedWithin("*", n, k)

\* quote and emphasis were opened and never closed in a first sentence of
\* two words; the word of the second sentence bears no flag
C27_Witness ==
    /\ parse_pc = "analyzed"
    /\ paragraph = <<<<"\"", "*", "a", "+", "n">>, <<"s", "a", ".">>, <<"a">>>>
    /\ Len(sentences) = 2
    /\ LeftOpen("\"", 1)
    /\ LeftOpen("*", 1)
    /\ Flagged(WORD_QUOTED, 1, 2)
    /\ sentences[2][1][1][2] = <<>>

============================================================================
